---------------------------- MODULE Spec2Model ----------------------------
(***************************************************************************)
(* Verification model of the hft-event-bus crate:                          *)
(*   - the dynamic broadcast bus        (bus.rs, events.rs)                *)
(*   - the recorder ring buffer         (replay.rs)                        *)
(*   - the typed competing-consumer bus (typed_bus.rs, fast_channel.rs)    *)
(*   - the deterministic replay engine  (replay_mode.rs)                   *)
(* Library channels (tokio::sync::broadcast, flume) are modelled by the    *)
(* behaviour they show at the call sites of this crate.                    *)
(***************************************************************************)
EXTENDS Integers, Sequences, FiniteSets, TLC

VARIABLES
    COUNTER,      \* events.rs: static COUNTER of EventEnvelope::new
    bus,          \* EventBus { channels, recorder, stats } + the broadcast channels
    pubs,         \* publisher tasks: position inside publish_with_priority
    listeners,    \* broadcast::Receiver handles returned by subscribe()
    calls,        \* number of publish calls started (bounds the run)
    recorder,     \* a stand-alone EventRecorder { events, capacity, position }
    recCalls,     \* record calls on the stand-alone recorder since new()/clear()
    recTasks,     \* the recorder's two RwLocks and the tasks calling into it
    tbus,         \* TypedEventBus { channels, stats }
    handles,      \* flume::Receiver handles returned by TypedEventBus::subscribe
    tcalls,       \* number of typed publish calls made (bounds the run)
    replay,       \* EventReplay { events, clock, ... } and its run position
    creations,    \* tasks inside EventEnvelope::new and the envelopes they made
    fchan,        \* a stand-alone FastChannel { sender, receiver } and its queue
    worker,       \* one runtime worker thread and the tasks scheduled on it
    tclones       \* TypedEventBus values (original and clones) and their Arcs

vars == <<COUNTER, bus, pubs, listeners, calls, recorder, recCalls, recTasks,
          tbus, handles, tcalls, replay, creations, fchan, worker, tclones>>

\* The parts that are modelled in specifications of their own
aloneVars  == <<creations, fchan, worker, tclones>>

busVars    == <<COUNTER, bus, pubs, listeners, calls>>
recVars    == <<recorder, recCalls, recTasks>>
typedVars  == <<tbus, handles, tcalls>>
notBus     == <<recorder, recCalls, recTasks, tbus, handles, tcalls, replay, aloneVars>>

-----------------------------------------------------------------------------
(* Bounds of the model *)

\* bus.rs:11 sets CHANNEL_CAPACITY = 10000, which is not a power of two;
\* the model runs the same code with the smallest capacity of that kind.
CHANNEL_CAPACITY == 3
MaxCalls       == 2    \* publish calls on the dynamic bus in one run
MaxLagCalls    == 6    \* publish calls of the one publisher of SpecLag
MaxRecvCalls   == 3    \* calls a task makes on its Subscriber helper
MaxListeners   == 2    \* receivers handed out by subscribe
MaxBusCapacity == 1    \* largest capacity given to EventBus::with_recording
MaxCapacity    == 3    \* largest capacity given to EventRecorder::new
MaxRecOps      == 3    \* calls the concurrent tasks make on one recorder
MaxLockCapacity == 2   \* largest capacity of the recorder those tasks share
MaxRecords     == 5    \* record calls on the stand-alone recorder
MaxData        == 1    \* distinguishing payload values (prices)
MaxStamp       == 3    \* timestamps given to recorded and loaded envelopes
MaxLoad        == 3    \* envelopes in a list given to load_events
MaxRuns        == 2    \* run and run_until calls on one EventReplay
MaxPaced       == 3    \* envelopes loaded for a paced run
MaxGapUnits    == 2    \* largest timestamp gap, in units of the pacing threshold
MaxGapSlack    == 2    \* nanoseconds by which a gap exceeds such a multiple
MaxMult        == 2    \* numerators and denominators of the speed multiplier
\* typed_bus.rs:98 creates each queue with FastChannel::bounded(100_000); the
\* model runs the same code with a queue small enough to fill.
TYPED_CAPACITY == 2
MaxTypedCalls  == 3    \* publish calls on the typed bus in one run
MaxHandles     == 2    \* receivers handed out by TypedEventBus::subscribe
MaxNow         == 1    \* wall-clock readings chrono::Utc::now() can give
MaxChanCapacity == 2   \* largest capacity given to FastChannel::bounded
MaxChanOps     == 5    \* channel calls made on the stand-alone channel in one run
MaxClones      == 2    \* clone() calls on TypedEventBus values
MaxCloneCalls  == 3    \* publish calls made through those values
MaxMakers      == 3    \* tasks that call EventEnvelope::new concurrently
MaxCreations   == 4    \* EventEnvelope::new calls those tasks make in one run
MaxStatCalls   == 4    \* publish and subscribe calls of the concurrent typed-bus tasks
MaxInterval    == 2    \* largest progress interval given to on_progress
MaxClockNs     == 3    \* largest time given to set_bounds and advance_to
MaxClockOps    == 4    \* calls made on a stand-alone VirtualClock

Tasks == {"t1", "t2"}

-----------------------------------------------------------------------------
(* events.rs *)

PayloadTypes ==
    {"MarketDataEvent", "AggregatedDataEvent", "FeatureEvent", "OrderBookEvent",
     "QuantumFeatureEvent", "SignalEvent", "OrderEvent", "FillEvent",
     "OrderUpdateEvent", "MetricsEvent", "PerformanceEvent", "HealthEvent",
     "ErrorEvent"}

\* impl Event for X { fn event_type(&self) -> &'static str }
event_type(T) ==
    CASE T = "MarketDataEvent"     -> "market_data"
      [] T = "AggregatedDataEvent" -> "aggregated_data"
      [] T = "FeatureEvent"        -> "feature"
      [] T = "OrderBookEvent"      -> "order_book"
      [] T = "QuantumFeatureEvent" -> "quantum"
      [] T = "SignalEvent"         -> "signal"
      [] T = "OrderEvent"          -> "order"
      [] T = "FillEvent"           -> "fill"
      [] T = "OrderUpdateEvent"    -> "order_update"
      [] T = "MetricsEvent"        -> "metrics"
      [] T = "PerformanceEvent"    -> "performance"
      [] T = "HealthEvent"         -> "health"
      [] T = "ErrorEvent"          -> "error"

\* A payload: one concrete event value (its Rust type and its data).
Payload(T, d) == [type |-> T, data |-> d]

\* EventEnvelope::new: id from the counter, timestamp of now, the priority given.
EnvelopeNew(seq, now, event, priority) ==
    [id |-> seq, timestamp_ns |-> now, priority |-> priority, event |-> event]

\* EventBus::event_type_name
event_type_name(event) == event_type(event.type)

-----------------------------------------------------------------------------
(* replay.rs: EventRecorder *)

\* EventRecorder::new(capacity)
EventRecorder_new(capacity) ==
    [present |-> TRUE, capacity |-> capacity, events |-> <<>>, position |-> 0,
     panicked |-> FALSE]

\* EventBus::new() keeps recorder: None
NoRecorder ==
    [present |-> FALSE, capacity |-> 0, events |-> <<>>, position |-> 0,
     panicked |-> FALSE]

\* A recorder that silently discards the envelope when it has no room at
\* all, instead of indexing into its empty buffer.
record_discarding(rec, event) ==
    IF rec.capacity = 0 THEN rec
    ELSE IF Len(rec.events) < rec.capacity
    THEN [rec EXCEPT !.events = Append(@, event),
                     !.position = (rec.position + 1) % rec.capacity]
    ELSE [rec EXCEPT !.events = [@ EXCEPT ![rec.position + 1] = event],
                     !.position = (rec.position + 1) % rec.capacity]

\* A record that moves the cursor only once the buffer is full
record_cursor_when_full(rec, event) ==
    IF Len(rec.events) < rec.capacity
    THEN [rec EXCEPT !.events = Append(@, event)]
    ELSE IF rec.position < Len(rec.events) /\ rec.capacity > 0
         THEN [rec EXCEPT !.events = [@ EXCEPT ![rec.position + 1] = event],
                          !.position = (rec.position + 1) % rec.capacity]
         ELSE [rec EXCEPT !.panicked = TRUE]

\* A recorder that pushes on every call and never overwrites.
record_push_only(rec, event) ==
    [rec EXCEPT !.events = Append(@, event),
                !.position = rec.position + 1]

\* EventRecorder::record. Vec indexing is 0-based in the source and 1-based
\* here; events[*pos] on an index >= len and % 0 both panic.
record(rec, event) ==
    IF Len(rec.events) < rec.capacity
    THEN [rec EXCEPT !.events = Append(@, event),
                     !.position = (rec.position + 1) % rec.capacity]
    ELSE IF rec.position < Len(rec.events) /\ rec.capacity > 0
         THEN [rec EXCEPT !.events = [@ EXCEPT ![rec.position + 1] = event],
                          !.position = (rec.position + 1) % rec.capacity]
         ELSE [rec EXCEPT !.panicked = TRUE]

\* EventRecorder::get_events: a snapshot copy
get_events(rec) == rec.events

\* A range query that leaves out the envelopes stamped end_ns itself
get_events_in_range_open(events, start_ns, end_ns) ==
    SelectSeq(events, LAMBDA e : e.timestamp_ns >= start_ns /\ e.timestamp_ns < end_ns)

\* EventRecorder::get_events_in_range(start_ns, end_ns) on the buffer read
\* under events.read(): iter().filter(..).cloned().collect()
get_events_in_range(events, start_ns, end_ns) ==
    SelectSeq(events, LAMBDA e : e.timestamp_ns >= start_ns /\ e.timestamp_ns <= end_ns)

\* No get_events_in_range call has returned since the last record or clear
NoRange == [asked |-> FALSE, start_ns |-> 0, end_ns |-> 0, out |-> << >>]

\* No call has been made on the stand-alone recorder
NoRecCalls == [since |-> 0, total |-> 0, range |-> NoRange]

\* A clear that empties the buffer and leaves the cursor where it is.
clear_keeps_cursor(rec) == [rec EXCEPT !.events = <<>>]

\* EventRecorder::clear
clear(rec) == [rec EXCEPT !.events = <<>>, !.position = 0]

-----------------------------------------------------------------------------
(* tokio::sync::broadcast as used by bus.rs *)

RECURSIVE next_power_of_two(_)
next_power_of_two(n) == IF n <= 1 THEN 1 ELSE 2 * next_power_of_two((n + 1) \div 2)

\* broadcast::channel(CHANNEL_CAPACITY).0 : the sender alone is kept, the
\* receiver half is dropped at once, so the channel starts with no receiver.
\* log holds every envelope sent (position p is log[p + 1]); the ring keeps
\* the last `ring` of them.
broadcast_channel(key, capacity) ==
    [key |-> key, log |-> <<>>, rx_cnt |-> 0, ring |-> next_power_of_two(capacity),
     closed |-> FALSE]

\* A send that queues by priority: the envelope goes in front of every
\* stored envelope of lower priority.
Sender_send_by_priority(ch, envelope) ==
    IF ch.rx_cnt = 0
    THEN [ok |-> FALSE, ch |-> ch]
    ELSE LET front == SelectSeq(ch.log, LAMBDA x : x.priority >= envelope.priority)
             back  == SelectSeq(ch.log, LAMBDA x : x.priority < envelope.priority)
         IN  [ok |-> TRUE, ch |-> [ch EXCEPT !.log = front \o <<envelope>> \o back]]

\* Sender::send: Err(SendError) when no receiver exists, else the value is
\* stored at the tail and Ok(rx_cnt) comes back.
Sender_send(ch, envelope) ==
    IF ch.rx_cnt = 0
    THEN [ok |-> FALSE, ch |-> ch]
    ELSE [ok |-> TRUE, ch |-> [ch EXCEPT !.log = Append(@, envelope)]]

\* Sender::subscribe: one more receiver, reading from the current tail.
Sender_subscribe(ch) == [ch EXCEPT !.rx_cnt = @ + 1]

\* A receiver that starts at the oldest value the channel ever held.
subscribe_position_from_start(ch) == 0

\* The position the receiver made by sender.subscribe() reads next: the
\* channel's tail, so that only values sent afterwards are seen.
subscribe_position(ch) == Len(ch.log)

\* Oldest position still held by the ring.
Oldest(ch) == IF Len(ch.log) > ch.ring THEN Len(ch.log) - ch.ring ELSE 0

\* Receiver::recv that hands out the value without moving the cursor.
Receiver_recv_peek(ch, next) ==
    IF next < Oldest(ch)
    THEN [kind |-> "Lagged", missed |-> Oldest(ch) - next, next |-> Oldest(ch)]
    ELSE IF next < Len(ch.log)
         THEN [kind |-> "Ok", envelope |-> ch.log[next + 1], next |-> next]
         ELSE [kind |-> IF ch.closed THEN "Closed" ELSE "Empty", next |-> next]

\* A receive that skips what the ring has lost without saying so and hands
\* out the oldest retained envelope.
Receiver_recv_silent(ch, next) ==
    IF next < Oldest(ch)
    THEN [kind |-> "Ok", envelope |-> ch.log[Oldest(ch) + 1], next |-> Oldest(ch) + 1]
    ELSE IF next < Len(ch.log)
         THEN [kind |-> "Ok", envelope |-> ch.log[next + 1], next |-> next + 1]
         ELSE [kind |-> IF ch.closed THEN "Closed" ELSE "Empty", next |-> next]

\* Receiver::recv / try_recv on a receiver whose cursor is `next`:
\* Lagged(missed) and a jump to the oldest retained slot, or the value at
\* the cursor, or nothing to read yet.
Receiver_recv(ch, next) ==
    IF next < Oldest(ch)
    THEN [kind |-> "Lagged", missed |-> Oldest(ch) - next, next |-> Oldest(ch)]
    ELSE IF next < Len(ch.log)
         THEN [kind |-> "Ok", envelope |-> ch.log[next + 1], next |-> next + 1]
         ELSE [kind |-> IF ch.closed THEN "Closed" ELSE "Empty", next |-> next]

-----------------------------------------------------------------------------
(* bus.rs: EventBus *)

EventStats_default == [published |-> 0, received |-> 0, dropped |-> 0]

\* EventBus::new / EventBus::with_recording
EventBus_new(rec) ==
    [channels |-> << >>, chans |-> << >>, stats |-> << >>, recorder |-> rec,
     dropped |-> FALSE]

HasKey(f, k) == k \in DOMAIN f

\* channels.insert(key, broadcast::channel(CAP).0) after a separate lookup:
\* every caller that saw no usable entry puts its own channel in the map.
channels_insert(b, key) ==
    [b EXCEPT !.chans = Append(@, broadcast_channel(key, CHANNEL_CAPACITY)),
              !.channels = [k \in DOMAIN b.channels \cup {key} |->
                               IF k = key THEN Len(b.chans) + 1
                               ELSE b.channels[k]]]

\* self.channels.entry(key).or_insert_with(|| broadcast::channel(CAP).0):
\* one atomic step of the map; an existing entry is kept.
channels_entry(b, key) ==
    IF HasKey(b.channels, key)
    THEN b
    ELSE [b EXCEPT !.chans = Append(@, broadcast_channel(key, CHANNEL_CAPACITY)),
                   !.channels = [k \in DOMAIN b.channels \cup {key} |->
                                    IF k = key THEN Len(b.chans) + 1
                                    ELSE b.channels[k]]]

\* An update that starts from a fresh entry instead of the stored one, as
\* an insert in place of entry().or_insert_with() would.
increment_stat_from_default(stats, key, field) ==
    LET old == EventStats_default
        new == IF field = "published"
               THEN [old EXCEPT !.published = @ + 1]
               ELSE [old EXCEPT !.dropped = @ + 1]
    IN  [k \in DOMAIN stats \cup {key} |-> IF k = key THEN new ELSE stats[k]]

\* EventBus::increment_stat with the closure |s| s.<field> += 1
increment_stat(stats, key, field) ==
    LET old == IF HasKey(stats, key) THEN stats[key] ELSE EventStats_default
        new == IF field = "published"
               THEN [old EXCEPT !.published = @ + 1]
               ELSE [old EXCEPT !.dropped = @ + 1]
    IN  [k \in DOMAIN stats \cup {key} |-> IF k = key THEN new ELSE stats[k]]

\* The match arms swapped: Ok counts as dropped, Err as published.
stat_after_send_swapped(stats, key, ok) ==
    IF ok THEN increment_stat(stats, key, "dropped")
          ELSE increment_stat(stats, key, "published")

\* The match on sender.send(envelope) in publish_with_priority
stat_after_send(stats, key, ok) ==
    IF ok THEN increment_stat(stats, key, "published")
          ELSE increment_stat(stats, key, "dropped")

\* EventBus::get_stats for one type name
get_stats(b, key) ==
    IF HasKey(b.stats, key) THEN b.stats[key] ELSE EventStats_default


-----------------------------------------------------------------------------
(* State of the tasks that use the dynamic bus *)

Priorities == {0, 9}           \* publisher.rs: publish_high/low_priority
Times      == 1..MaxNow
Data       == 1..MaxData
BusTypes   == {"MarketDataEvent", "SignalEvent"}
BusKeys    == {event_type(T) : T \in BusTypes}

NoEnvelope == [id |-> 0, timestamp_ns |-> 0, priority |-> 0,
               event |-> Payload("none", 0)]

IdlePublisher ==
    [pc |-> "idle", envelope |-> NoEnvelope, sender |-> 0, ok |-> FALSE,
     audience |-> {}, ret |-> "none", recorded |-> 0]

\* An envelope handed to the recorder under an id of its own
recorded_copy_renumbered(envelope) == [envelope EXCEPT !.id = 0]

\* bus.rs:63, recorder.record(envelope): the recorder gets the envelope that
\* is sent afterwards
recorded_copy(envelope) == envelope

NoListener ==
    [pc |-> "none", key |-> "none", via |-> "none", sender |-> 0, start |-> 0,
     next |-> 0, got |-> << >>, lagged |-> {}, behind |-> 0, out |-> << >>,
     earlier |-> {}]

Listeners == 1..MaxListeners

\* Receivers of channel c that exist (subscribed and not yet dropped).
LiveOn(c) == {l \in Listeners : listeners[l].pc = "live" /\ listeners[l].sender = c}

\* Every receiver that exists, on whatever channel.
Live == {l \in Listeners : listeners[l].pc = "live"}

InitBus(rec) ==
    /\ COUNTER = 1
    /\ bus = EventBus_new(rec)
    /\ pubs = [p \in Tasks |-> IdlePublisher]
    /\ listeners = [l \in Listeners |-> NoListener]
    /\ calls = [started |-> 0, done |-> << >>, max |-> MaxCalls]

\* publish_with_priority, lines 58-59: the type name and the envelope
\* (COUNTER.fetch_add, Utc::now).
publish_with_priority(p, event, priority) ==
    /\ pubs[p].pc \in {"idle"}
    /\ calls.started < calls.max
    /\ \E now \in Times :
         pubs' = [pubs EXCEPT ![p] =
                    [IdlePublisher EXCEPT
                        !.pc = IF bus.recorder.present THEN "record" ELSE "entry",
                        !.envelope = EnvelopeNew(COUNTER, now, event, priority)]]
    /\ COUNTER' = COUNTER + 1
    /\ calls' = [calls EXCEPT !.started = @ + 1]
    /\ UNCHANGED <<bus, listeners, notBus>>

\* EventBus::publish: publish_with_priority(event, 5)
publish(p, event) == publish_with_priority(p, event, 5)

\* lines 62-64: recorder.record(envelope).await
publish_record(p) ==
    /\ pubs[p].pc = "record"
    /\ LET rec == record(bus.recorder, recorded_copy(pubs[p].envelope)) IN
         IF rec.panicked
         THEN /\ pubs' = [pubs EXCEPT ![p].pc = "panicked", ![p].ret = "panic"]
              /\ UNCHANGED bus
         ELSE /\ pubs' = [pubs EXCEPT ![p].pc = "entry", ![p].recorded = @ + 1]
              /\ bus' = [bus EXCEPT !.recorder = rec]
    /\ UNCHANGED <<COUNTER, listeners, calls, notBus>>

\* lines 67-72: get or create the channel, clone its sender
publish_entry(p) ==
    /\ pubs[p].pc = "entry"
    /\ LET key == event_type_name(pubs[p].envelope.event)
           b   == channels_entry(bus, key)
       IN  /\ bus' = b
           /\ pubs' = [pubs EXCEPT ![p].pc = "send", ![p].sender = b.channels[key]]
    /\ UNCHANGED <<COUNTER, listeners, calls, notBus>>

\* line 75: sender.send(envelope)
publish_send(p) ==
    /\ pubs[p].pc = "send"
    /\ LET c == pubs[p].sender
           r == Sender_send(bus.chans[c], pubs[p].envelope)
       IN  /\ bus' = [bus EXCEPT !.chans[c] = r.ch]
           /\ pubs' = [pubs EXCEPT ![p].pc = "stat", ![p].ok = r.ok,
                                   ![p].audience = Live]
    /\ UNCHANGED <<COUNTER, listeners, calls, notBus>>

\* lines 76-83: the counter update of the matching arm, then Ok(())
publish_stat(p) ==
    /\ pubs[p].pc = "stat"
    /\ LET key == event_type_name(pubs[p].envelope.event) IN
         /\ bus' = [bus EXCEPT !.stats = stat_after_send(@, key, pubs[p].ok)]
         /\ calls' = [calls EXCEPT !.done =
                        [k \in DOMAIN calls.done \cup {key} |->
                            IF k = key
                            THEN (IF HasKey(calls.done, k) THEN calls.done[k] ELSE 0) + 1
                            ELSE calls.done[k]]]
    /\ pubs' = [pubs EXCEPT ![p] = [IdlePublisher EXCEPT !.ret = "Ok"]]
    /\ UNCHANGED <<COUNTER, listeners, notBus>>

\* EventBus::subscribe, lines 89-94: get or create the channel
subscribe_as(l, event_type_key, via) ==
    /\ listeners[l].pc = "none"
    /\ LET b == channels_entry(bus, event_type_key) IN
         /\ bus' = b
         /\ listeners' = [listeners EXCEPT ![l] =
                [NoListener EXCEPT !.pc = "bound", !.key = event_type_key,
                                   !.via = via,
                                   !.sender = b.channels[event_type_key]]]
    /\ UNCHANGED <<COUNTER, pubs, calls, notBus>>

subscribe(l, event_type_key) == subscribe_as(l, event_type_key, "subscribe")

\* bus.rs lines 99-122: the named convenience subscriptions
subscribe_market_data(l) == subscribe_as(l, "MarketData", "subscribe_market_data")
subscribe_signals(l)     == subscribe_as(l, "Signal", "subscribe_signals")
subscribe_fills(l)       == subscribe_as(l, "Fill", "subscribe_fills")
subscribe_orders(l)      == subscribe_as(l, "Order", "subscribe_orders")
subscribe_features(l)    == subscribe_as(l, "Feature", "subscribe_features")

\* EventBus::subscribe, line 96: sender.subscribe()
subscribe_attach(l) ==
    /\ listeners[l].pc = "bound"
    /\ LET c == listeners[l].sender IN
         /\ bus' = [bus EXCEPT !.chans[c] = Sender_subscribe(@)]
         /\ listeners' = [listeners EXCEPT ![l].pc = "live",
                                           ![l].start = subscribe_position(bus.chans[c]),
                                           ![l].next = subscribe_position(bus.chans[c]),
                                           ![l].earlier =
                                               {bus.chans[c].log[q].id :
                                                  q \in 1..Len(bus.chans[c].log)}]
    /\ UNCHANGED <<COUNTER, pubs, calls, notBus>>

\* What a receive completed with: the envelope, or the error it returned
Outcome(r) ==
    CASE r.kind = "Ok"     -> r.envelope
      [] r.kind = "Lagged" -> [lagged |-> r.missed]
      [] r.kind = "Closed" -> [closed |-> TRUE]
      [] OTHER             -> [empty |-> TRUE]

\* rx.recv().await on a receiver returned by subscribe: completes with an
\* envelope or with Lagged(n); waits while there is nothing to read.
recv(l) ==
    /\ listeners[l].pc = "live"
    /\ LET c == listeners[l].sender
           r == Receiver_recv(bus.chans[c], listeners[l].next)
       IN  /\ r.kind # "Empty"
           /\ listeners' = [listeners EXCEPT
                  ![l].next = r.next,
                  ![l].behind = Len(bus.chans[c].log) - listeners[l].next,
                  ![l].got = Append(@, Outcome(r)),
                  ![l].lagged = IF r.kind = "Lagged"
                                THEN @ \cup (listeners[l].next .. r.next - 1)
                                ELSE @]
    /\ UNCHANGED <<COUNTER, bus, pubs, calls, notBus>>

\* The receiver goes out of scope: Drop for broadcast::Receiver
drop_receiver(l) ==
    /\ listeners[l].pc = "live"
    /\ LET c == listeners[l].sender IN
         bus' = [bus EXCEPT !.chans[c].rx_cnt = @ - 1]
    /\ listeners' = [listeners EXCEPT ![l].pc = "dropped"]
    /\ UNCHANGED <<COUNTER, pubs, calls, notBus>>


-----------------------------------------------------------------------------
(* Idle values of the parts a specification does not exercise *)

\* No typed publish has returned yet
NoResult == [type |-> "none", kind |-> "none", orphaned |-> FALSE]

\* tokio::sync::RwLock: who holds it, and who waits for it in arrival order
RwLock_new == [writer |-> "none", readers |-> {}, queue |-> << >>]

\* A task that is not inside a recorder call
IdleRecTask ==
    [pc |-> "idle", op |-> "none", need |-> << >>, held |-> << >>,
     envelope |-> NoEnvelope, ret |-> << >>]

\* EventRecorder::new: both locks free, no call in progress
NoRecTasks ==
    [locks |-> [events |-> RwLock_new, position |-> RwLock_new],
     tasks |-> [t \in Tasks |-> IdleRecTask], ops |-> 0]

IdleRecorder == /\ recorder = NoRecorder
                /\ recCalls = NoRecCalls
                /\ recTasks = NoRecTasks

IdleTyped == /\ tbus = [channels |-> << >>, stats |-> << >>, panicked |-> FALSE,
               last |-> NoResult, made |-> 0]
             /\ handles = << >>
             /\ tcalls = 0

IdleBus == InitBus(NoRecorder)

IdleReplay == replay = [pc |-> "idle"]

\* A task that is not inside EventEnvelope::new
IdleMaker == [pc |-> "idle", seq |-> 0, now |-> 0, start |-> 0]

\* No envelope has been asked for yet
NoCreations == [tasks |-> [t \in 1..MaxMakers |-> IdleMaker], made |-> << >>,
                clock |-> 0, calls |-> 0]

\* No stand-alone channel has been built
NoChannel == [elem |-> "none", queue |-> << >>, cap |-> 0, senders |-> 0,
              receivers |-> 0]

\* A task of the worker thread that is not inside a channel call
NoReturn == [op |-> "none", kind |-> "none", event |-> 0, given |-> 0,
             before |-> NoChannel, after |-> NoChannel, waited |-> FALSE]
IdleWorkerTask == [pc |-> "idle", op |-> "none", event |-> 0, ret |-> NoReturn]

\* A worker thread with nothing to do
NoWorker == [running |-> "none", tasks |-> [t \in Tasks |-> IdleWorkerTask],
             ops |-> 0, sent |-> 0, received |-> 0]

\* No TypedEventBus has been built
NoClones == [maps |-> << >>, statmaps |-> << >>, buses |-> << >>,
             handles |-> << >>, sent |-> << >>, first |-> << >>]

IdleAlone == /\ creations = NoCreations
             /\ fchan = NoChannel
             /\ worker = NoWorker
             /\ tclones = NoClones

-----------------------------------------------------------------------------
(* Spec: the dynamic bus under concurrent publishers and subscribers *)

BusRecorders == {NoRecorder} \cup {EventRecorder_new(c) : c \in 0..MaxBusCapacity}

Init ==
    /\ \E rec \in BusRecorders : InitBus(rec)
    /\ IdleRecorder /\ IdleTyped /\ IdleReplay /\ IdleAlone

Next ==
    \/ \E p \in Tasks, T \in BusTypes, d \in Data : publish(p, Payload(T, d))
    \/ \E p \in Tasks, T \in BusTypes, d \in Data, prio \in Priorities :
          publish_with_priority(p, Payload(T, d), prio)
    \/ \E p \in Tasks : publish_record(p)
    \/ \E p \in Tasks : publish_entry(p)
    \/ \E p \in Tasks : publish_send(p)
    \/ \E p \in Tasks : publish_stat(p)
    \/ \E l \in Listeners, k \in BusKeys : subscribe(l, k)
    \/ \E l \in Listeners : subscribe_attach(l)
    \/ \E l \in Listeners : recv(l)
    \/ \E l \in Listeners : drop_receiver(l)

Spec == Init /\ [][Next]_vars


-----------------------------------------------------------------------------
(* Properties of the dynamic bus *)

IsEnvelope(x) == "id" \in DOMAIN x

\* The envelopes a receiver was handed, in order (lag signals left out).
Delivered(l) == SelectSeq(listeners[l].got, IsEnvelope)

\* The positions of its channel a receiver has passed without lagging over.
Passed(l) ==
    {q \in listeners[l].start .. listeners[l].next - 1 : q \notin listeners[l].lagged}

\* The k-th smallest element of a finite set of integers.
Kth(S, k) == CHOOSE q \in S : Cardinality({r \in S : r < q}) = k - 1

Subscribed(l) == listeners[l].pc \in {"live", "dropped"}

\* C1: fan-out. A send made while listeners of the envelope's type name
\* exist stores the envelope in the channel those listeners read, and what
\* each listener has been handed is exactly the envelopes published since
\* it subscribed that it did not lag over, each once, in one copy (same id,
\* timestamp, priority and payload for all listeners).
C1_FanOut ==
    /\ \A l \in Listeners : Subscribed(l) =>
          LET log == bus.chans[listeners[l].sender].log IN
          /\ Len(Delivered(l)) = Cardinality(Passed(l))
          /\ \A k \in 1..Len(Delivered(l)) :
                Delivered(l)[k] = log[Kth(Passed(l), k) + 1]
    /\ \A p \in Tasks : pubs[p].pc = "stat" =>
          \A l \in pubs[p].audience :
             listeners[l].key = event_type_name(pubs[p].envelope.event) =>
                /\ pubs[p].ok
                /\ \E i \in listeners[l].start + 1 ..
                            Len(bus.chans[listeners[l].sender].log) :
                      bus.chans[listeners[l].sender].log[i] = pubs[p].envelope

\* Two listeners of one type name have both been handed the same envelope.
C1_Witness ==
    \E l1, l2 \in Listeners :
       /\ l1 # l2
       /\ listeners[l1].key = listeners[l2].key
       /\ Len(Delivered(l1)) >= 1 /\ Len(Delivered(l2)) >= 1
       /\ Delivered(l1)[1] = Delivered(l2)[1]
       /\ Delivered(l1)[1].id >= 1

\* C5 (as claimed): no publish call ends otherwise than by returning Ok(()).
C5_PublishAlwaysSucceeds ==
    \A p \in Tasks : pubs[p].ret \in {"none", "Ok"}

\* C6: drop accounting. The counter update of a publish whose send found no
\* live listener of the type name adds one to that name's dropped counter;
\* one whose send reached a listener leaves dropped as it is; the counters
\* of every other type name stay as they are.
C6_DropAccounting ==
    [][\A p \in Tasks : publish_stat(p) =>
          LET key  == event_type_name(pubs[p].envelope.event)
              subs == {l \in pubs[p].audience : listeners[l].key = key}
          IN  /\ get_stats(bus', key).dropped =
                    get_stats(bus, key).dropped + (IF subs = {} THEN 1 ELSE 0)
              /\ \A k \in (DOMAIN bus.stats \cup DOMAIN bus'.stats) \ {key} :
                    /\ k \in DOMAIN bus.stats /\ k \in DOMAIN bus'.stats
                    /\ bus'.stats[k] = bus.stats[k]]_vars

\* A dropped publish has been counted for one type name and a delivered
\* one for another.
C6_Witness ==
    \E k1, k2 \in BusKeys :
       /\ k1 # k2
       /\ get_stats(bus, k1).dropped = 1
       /\ get_stats(bus, k2).published = 1 /\ get_stats(bus, k2).dropped = 0

CallsDone(k) == IF HasKey(calls.done, k) THEN calls.done[k] ELSE 0

\* C7 (as claimed): the published counter of a type name counts every
\* completed publish call of that name, with or without subscribers.
C7_PublishedCountsEveryCall ==
    \A k \in BusKeys : get_stats(bus, k).published = CallsDone(k)

\* C9: single-winner lazy creation. No type name ever has two channels,
\* and every publisher and listener that holds a sender holds the one the
\* registry keeps for its type name.
C9_SingleChannel ==
    /\ \A k \in BusKeys :
          Cardinality({c \in 1..Len(bus.chans) : bus.chans[c].key = k}) <= 1
    /\ \A p \in Tasks : pubs[p].pc \in {"send", "stat"} =>
          LET key == event_type_name(pubs[p].envelope.event) IN
          HasKey(bus.channels, key) /\ pubs[p].sender = bus.channels[key]
    /\ \A l \in Listeners : listeners[l].pc \in {"bound", "live", "dropped"} =>
          /\ HasKey(bus.channels, listeners[l].key)
          /\ listeners[l].sender = bus.channels[listeners[l].key]

\* A first publish and a first subscribe of one type name are both between
\* their registry step and their channel step.
C9_Witness ==
    \E p \in Tasks, l \in Listeners :
       /\ pubs[p].pc = "send" /\ listeners[l].pc = "bound"
       /\ listeners[l].key = event_type_name(pubs[p].envelope.event)
       /\ pubs[p].sender = listeners[l].sender
       /\ bus.chans[pubs[p].sender].log = << >>
       /\ bus.chans[pubs[p].sender].rx_cnt = 0


\* log is an initial part of log2
IsPrefix(log, log2) ==
    Len(log) <= Len(log2) /\ SubSeq(log2, 1, Len(log)) = log

-----------------------------------------------------------------------------
(* SpecLag: one publisher that runs ahead of its listeners *)

InitLag ==
    /\ COUNTER = 1
    /\ bus = EventBus_new(NoRecorder)
    /\ pubs = [p \in Tasks |-> IdlePublisher]
    /\ listeners = [l \in Listeners |-> NoListener]
    /\ calls = [started |-> 0, done |-> << >>, max |-> MaxLagCalls]
    /\ IdleRecorder /\ IdleTyped /\ IdleReplay /\ IdleAlone

NextLag ==
    \/ \E d \in Data : publish("t1", Payload("MarketDataEvent", d))
    \/ publish_entry("t1")
    \/ publish_send("t1")
    \/ publish_stat("t1")
    \/ \E l \in Listeners : subscribe(l, event_type("MarketDataEvent"))
    \/ \E l \in Listeners : subscribe_attach(l)
    \/ \E l \in Listeners : recv(l)

SpecLag == InitLag /\ [][NextLag]_vars

\* What the last completed receive of a listener returned
LastGot(l) == listeners[l].got[Len(listeners[l].got)]

\* The number of envelopes the channel of a listener retains
Ring(l) == bus.chans[listeners[l].sender].ring

\* C12 (as claimed): a receive made when more than CHANNEL_CAPACITY
\* envelopes have been published on the channel since the listener last
\* received yields a Lagged signal.
C12_LagAtCapacity ==
    \A l \in Listeners :
       (listeners[l].got # << >> /\ listeners[l].behind > CHANNEL_CAPACITY)
          => ~IsEnvelope(LastGot(l))

\* C12 (what the code does): the channel retains CHANNEL_CAPACITY rounded
\* up to the next power of two. A receive made when more envelopes than that are
\* unread yields Lagged(n) with n the number of unread envelopes no longer
\* retained, and with no more unread than that it yields an envelope; the
\* envelopes handed out are those at the positions not lagged over, oldest
\* first, the lag signals add up to the positions lagged over, and no
\* envelope at such a position is ever handed to the listener.
C12_LagSignal ==
    \A l \in Listeners : Subscribed(l) =>
       LET log == bus.chans[listeners[l].sender].log
           got == listeners[l].got
       IN  /\ Ring(l) = next_power_of_two(CHANNEL_CAPACITY)
           /\ got # << >> =>
                 IF listeners[l].behind > Ring(l)
                 THEN LastGot(l) = [lagged |-> listeners[l].behind - Ring(l)]
                 ELSE IsEnvelope(LastGot(l))
           /\ Len(Delivered(l)) = Cardinality(Passed(l))
           /\ \A k \in 1..Len(Delivered(l)) :
                 Delivered(l)[k] = log[Kth(Passed(l), k) + 1]
           /\ \A q \in listeners[l].lagged, k \in 1..Len(Delivered(l)) :
                 Delivered(l)[k] # log[q + 1]
           /\ Cardinality(listeners[l].lagged) =
                 Cardinality({<<i, n>> \in (1..Len(got)) \X (1..MaxLagCalls + 1) :
                     ~IsEnvelope(got[i]) /\ n <= got[i].lagged})

\* A listener that had read one envelope fell more than the ring behind, was
\* told Lagged(1) and then handed the oldest retained envelope.
C12_Witness ==
    \E l \in Listeners :
       /\ Len(listeners[l].got) = 3
       /\ IsEnvelope(listeners[l].got[1])
       /\ listeners[l].got[2] = [lagged |-> 1]
       /\ IsEnvelope(listeners[l].got[3])
       /\ listeners[l].got[3] = bus.chans[listeners[l].sender].log[3]
       /\ listeners[l].lagged = {1}


-----------------------------------------------------------------------------
(* subscriber.rs: the Subscriber helper; SpecSubscriber *)

Some(envelope) == [tag |-> "Some", envelope |-> envelope]
None == [tag |-> "None"]

\* A match that hands the lag on to the caller as an error.
Subscriber_match_surfacing(r) ==
    CASE r.kind = "Ok"     -> Some(r.envelope)
      [] r.kind = "Lagged" -> [tag |-> "Err", lagged |-> r.missed]
      [] OTHER             -> None

\* The match in Subscriber::recv (Ok, Lagged, Closed) and in
\* Subscriber::try_recv (Ok, Err(_))
Subscriber_match(r) ==
    CASE r.kind = "Ok"     -> Some(r.envelope)
      [] r.kind = "Lagged" -> None
      [] r.kind = "Closed" -> None
      [] OTHER             -> None

\* One call of the helper that completed with result r of its receiver
Subscriber_call(l, r) ==
    /\ listeners' = [listeners EXCEPT
          ![l].next = r.next,
          ![l].behind = Len(bus.chans[listeners[l].sender].log) - listeners[l].next,
          ![l].got = Append(@, Outcome(r)),
          ![l].out = Append(@, Subscriber_match(r)),
          ![l].lagged = IF r.kind = "Lagged"
                        THEN @ \cup (listeners[l].next .. r.next - 1)
                        ELSE @]
    /\ UNCHANGED <<COUNTER, bus, pubs, calls, notBus>>

\* Subscriber::recv: self.receiver.recv().await, which waits while the
\* channel is open and has nothing to read
Subscriber_recv(l) ==
    /\ listeners[l].pc = "live"
    /\ Len(listeners[l].out) < MaxRecvCalls
    /\ LET r == Receiver_recv(bus.chans[listeners[l].sender], listeners[l].next) IN
         /\ r.kind # "Empty"
         /\ Subscriber_call(l, r)

\* Subscriber::try_recv: self.receiver.try_recv(), which never waits
Subscriber_try_recv(l) ==
    /\ listeners[l].pc = "live"
    /\ Len(listeners[l].out) < MaxRecvCalls
    /\ Subscriber_call(l, Receiver_recv(bus.chans[listeners[l].sender],
                                        listeners[l].next))

\* The owner drops the EventBus while no call borrows it: every Sender the
\* registry holds goes, which closes the channels.
drop_bus ==
    /\ ~bus.dropped
    /\ \A p \in Tasks : pubs[p].pc = "idle"
    /\ \A l \in Listeners : listeners[l].pc # "bound"
    /\ bus' = [bus EXCEPT !.dropped = TRUE,
                          !.chans = [c \in DOMAIN bus.chans |->
                                        [bus.chans[c] EXCEPT !.closed = TRUE]]]
    /\ UNCHANGED <<COUNTER, pubs, listeners, calls, notBus>>

NextSubscriber ==
    \/ /\ ~bus.dropped
       /\ \E d \in Data : publish("t1", Payload("MarketDataEvent", d))
    \/ publish_entry("t1")
    \/ publish_send("t1")
    \/ publish_stat("t1")
    \/ /\ ~bus.dropped
       /\ \E l \in Listeners : subscribe(l, event_type("MarketDataEvent"))
    \/ \E l \in Listeners : subscribe_attach(l)
    \/ \E l \in Listeners : Subscriber_recv(l)
    \/ \E l \in Listeners : Subscriber_try_recv(l)
    \/ drop_bus

SpecSubscriber == InitLag /\ [][NextSubscriber]_vars

\* C13: every call of the helper returns Some(envelope) or None, never an
\* error: Some(envelope) exactly when its receiver delivered that envelope,
\* and None when the receiver reported Lagged(n), a closed channel or (for
\* try_recv) nothing to read, so that the caller cannot tell these apart.
C13_HelperSwallows ==
    \A l \in Listeners :
       /\ Len(listeners[l].out) = Len(listeners[l].got)
       /\ \A k \in 1..Len(listeners[l].out) :
             listeners[l].out[k] =
                IF IsEnvelope(listeners[l].got[k])
                THEN Some(listeners[l].got[k]) ELSE None

\* The helper has answered None to a lag of one listener and None to the
\* closed channel of another, and Some(envelope) after the lag.
C13_Witness ==
    \E l1, l2 \in Listeners :
       /\ Len(listeners[l1].got) >= 2
       /\ "lagged" \in DOMAIN listeners[l1].got[1]
       /\ listeners[l1].out[1] = None
       /\ listeners[l1].out[2].tag = "Some"
       /\ Len(listeners[l2].got) >= 1
       /\ "closed" \in DOMAIN listeners[l2].got[1]
       /\ listeners[l2].out[1] = None


-----------------------------------------------------------------------------
(* SpecNamed: one publisher and the named convenience subscriptions *)

NamedTypes ==
    {"MarketDataEvent", "SignalEvent", "FillEvent", "OrderEvent", "FeatureEvent"}

InitNamed ==
    /\ InitBus(NoRecorder)
    /\ IdleRecorder /\ IdleTyped /\ IdleReplay /\ IdleAlone

NextNamed ==
    \/ \E T \in NamedTypes, d \in Data : publish("t1", Payload(T, d))
    \/ publish_entry("t1")
    \/ publish_send("t1")
    \/ publish_stat("t1")
    \/ \E l \in Listeners : subscribe_market_data(l)
    \/ \E l \in Listeners : subscribe_signals(l)
    \/ \E l \in Listeners : subscribe_fills(l)
    \/ \E l \in Listeners : subscribe_orders(l)
    \/ \E l \in Listeners : subscribe_features(l)
    \/ \E l \in Listeners : subscribe(l, event_type("MarketDataEvent"))
    \/ \E l \in Listeners : subscribe_attach(l)
    \/ \E l \in Listeners : recv(l)

SpecNamed == InitNamed /\ [][NextNamed]_vars

\* The named subscription that goes with a payload type.
NamedSubscription(T) ==
    CASE T = "MarketDataEvent" -> "subscribe_market_data"
      [] T = "SignalEvent"     -> "subscribe_signals"
      [] T = "FillEvent"       -> "subscribe_fills"
      [] T = "OrderEvent"      -> "subscribe_orders"
      [] T = "FeatureEvent"    -> "subscribe_features"
      [] OTHER                 -> "none"

\* C8 (as claimed): an event sent by publish() while a listener obtained
\* from the named subscription of its kind exists is stored, with priority
\* 5, in the channel that listener reads: the key derived from the payload
\* is the key the named subscription binds to.
C8_NamedSubscriptionReceives ==
    \A p \in Tasks : pubs[p].pc = "stat" =>
       \A l \in pubs[p].audience :
          listeners[l].via = NamedSubscription(pubs[p].envelope.event.type) =>
             /\ listeners[l].key = event_type_name(pubs[p].envelope.event)
             /\ pubs[p].envelope.priority = 5
             /\ \E i \in listeners[l].start + 1 ..
                         Len(bus.chans[listeners[l].sender].log) :
                   bus.chans[listeners[l].sender].log[i] = pubs[p].envelope


-----------------------------------------------------------------------------
(* SpecRecorder: a stand-alone EventRecorder *)

Stamps == 1..MaxStamp
notRecorder == <<bus, pubs, listeners, calls, recTasks, tbus, handles, tcalls, replay,
                 aloneVars>>

InitRecorder ==
    /\ \E c \in 0..MaxCapacity : recorder = EventRecorder_new(c)
    /\ recCalls = NoRecCalls
    /\ recTasks = NoRecTasks
    /\ IdleBus /\ IdleTyped /\ IdleReplay /\ IdleAlone

\* recorder.record(EventEnvelope::new(event, 5)) as in test_circular_buffer;
\* the envelope's timestamp is whatever the caller left in it.
rec_record(ts, d) ==
    /\ recCalls.total < MaxRecords
    /\ ~recorder.panicked
    /\ LET envelope == EnvelopeNew(COUNTER, ts, Payload("MarketDataEvent", d), 5)
           rec      == record(recorder, envelope)
       IN  /\ recorder' = rec
           /\ recCalls' = [since |-> IF rec.panicked THEN recCalls.since
                                     ELSE recCalls.since + 1,
                           total |-> recCalls.total + 1,
                           range |-> NoRange]
    /\ COUNTER' = COUNTER + 1
    /\ UNCHANGED notRecorder

\* recorder.clear()
rec_clear ==
    /\ ~recorder.panicked
    /\ recorder' = clear(recorder)
    /\ recCalls' = [recCalls EXCEPT !.since = 0, !.range = NoRange]
    /\ UNCHANGED <<COUNTER, notRecorder>>

\* recorder.get_events_in_range(start_ns, end_ns)
rec_get_events_in_range(start_ns, end_ns) ==
    /\ ~recorder.panicked
    /\ recCalls' = [recCalls EXCEPT !.range =
          [asked |-> TRUE, start_ns |-> start_ns, end_ns |-> end_ns,
           out |-> get_events_in_range(recorder.events, start_ns, end_ns)]]
    /\ UNCHANGED <<COUNTER, recorder, recTasks>>
    /\ UNCHANGED notRecorder

NextRecorder ==
    \/ \E ts \in Stamps, d \in Data : rec_record(ts, d)
    \/ rec_clear
    \/ \E start_ns, end_ns \in 0..MaxStamp + 1 :
          rec_get_events_in_range(start_ns, end_ns)

SpecRecorder == InitRecorder /\ [][NextRecorder]_vars

Min(a, b) == IF a <= b THEN a ELSE b

\* C4: ring bound. For capacity C >= 1 the buffer never holds more than C
\* envelopes, and after n record calls since construction or the last clear
\* the snapshot of get_events has length min(n, C).
C4_RingBound ==
    recorder.capacity >= 1 =>
       /\ Len(recorder.events) <= recorder.capacity
       /\ Len(get_events(recorder)) = Min(recCalls.since, recorder.capacity)

\* A recorder of capacity C >= 1 has taken more than C records since a
\* clear, earlier records having been cleared away.
C4_Witness ==
    /\ recorder.capacity >= 1
    /\ recCalls.since > recorder.capacity
    /\ recCalls.total > recCalls.since
    /\ Len(get_events(recorder)) = recorder.capacity


-----------------------------------------------------------------------------
(* fast_channel.rs: FastChannel over flume *)

\* A channel that keeps the sender alone, as the dynamic bus does
FastChannel_bounded_sender_only(E, capacity) ==
    [elem |-> E, queue |-> << >>, cap |-> capacity, senders |-> 1, receivers |-> 0]

\* FastChannel::bounded(capacity): the channel keeps one sender and one
\* receiver of the flume queue for as long as it lives.
FastChannel_bounded(E, capacity) ==
    [elem |-> E, queue |-> << >>, cap |-> capacity, senders |-> 1, receivers |-> 1]

\* A send that enqueues whether or not the bounded queue has room
FastChannel_send_overfilling(ch, event) ==
    IF ch.receivers = 0
    THEN [kind |-> "Disconnected", ch |-> ch]
    ELSE [kind |-> "Ok", ch |-> [ch EXCEPT !.queue = Append(@, event)]]

\* FastChannel::send -> flume::Sender::send: Disconnected when no receiver
\* is left, waits while the bounded queue is full, else enqueues at the tail.
FastChannel_send(ch, event) ==
    IF ch.receivers = 0
    THEN [kind |-> "Disconnected", ch |-> ch]
    ELSE IF Len(ch.queue) >= ch.cap
         THEN [kind |-> "Full", ch |-> ch]
         ELSE [kind |-> "Ok", ch |-> [ch EXCEPT !.queue = Append(@, event)]]

\* flume::Receiver::recv that hands out the head and leaves it queued.
Receiver_take_peek(ch) ==
    IF ch.queue = << >>
    THEN [kind |-> IF ch.senders = 0 THEN "Disconnected" ELSE "Empty", ch |-> ch]
    ELSE [kind |-> "Ok", event |-> Head(ch.queue), ch |-> ch]

\* flume::Receiver::recv / try_recv on a handle of the channel's queue: the
\* head is removed and handed to this one caller.
Receiver_take(ch) ==
    IF ch.queue = << >>
    THEN [kind |-> IF ch.senders = 0 THEN "Disconnected" ELSE "Empty", ch |-> ch]
    ELSE [kind |-> "Ok", event |-> Head(ch.queue),
          ch |-> [ch EXCEPT !.queue = Tail(@)]]

\* FastChannel::receiver: a clone of the receiver half
FastChannel_receiver(ch) == [ch EXCEPT !.receivers = @ + 1]

\* FastChannel::len
FastChannel_len(ch) == Len(ch.queue)

\* FastChannel::is_empty -> flume::Receiver::is_empty
FastChannel_is_empty(ch) == ch.queue = << >>

-----------------------------------------------------------------------------
(* typed_bus.rs: TypedEventBus *)

TypedTypes == {"TradeV2", "QuoteV2"}

\* A TypeId that is the same for every type
TypeId_of_colliding(E) == "TradeV2"

\* TypeId::of::<E>(): one identity per type
TypeId_of(E) == E

TypedEventStats_default == [published |-> 0, received |-> 0, subscribers |-> 0]

\* create_test_trade(id) / create_test_quote(id): a value of type E
TypedEvent(E, id) == [type |-> E, id |-> id]

\* TypedEventBus::get_or_create_channel: entry(type_id).or_insert_with(..),
\* then the checked downcast to FastChannel<E> (expect(..) aborts on failure).
get_or_create_channel(tb, E) ==
    LET tid == TypeId_of(E)
        chs == IF HasKey(tb.channels, tid) THEN tb.channels
               ELSE [k \in DOMAIN tb.channels \cup {tid} |->
                        IF k = tid THEN FastChannel_bounded(E, TYPED_CAPACITY)
                        ELSE tb.channels[k]]
    IN  [tb EXCEPT !.channels = chs,
                   !.made = IF HasKey(tb.channels, tid) THEN @ ELSE @ + 1,
                   !.panicked = @ \/ chs[tid].elem # E]

\* A stats update that stores a fresh entry with the one counter at 1
typed_stat_overwriting(stats, tid, field) ==
    LET new == IF field = "published"
               THEN [TypedEventStats_default EXCEPT !.published = 1]
               ELSE [TypedEventStats_default EXCEPT !.subscribers = 1]
    IN  [k \in DOMAIN stats \cup {tid} |-> IF k = tid THEN new ELSE stats[k]]

\* The stats entry of a type with one counter raised by one
typed_stat(stats, tid, field) ==
    LET old == IF HasKey(stats, tid) THEN stats[tid] ELSE TypedEventStats_default
        new == IF field = "published"
               THEN [old EXCEPT !.published = @ + 1]
               ELSE [old EXCEPT !.subscribers = @ + 1]
    IN  [k \in DOMAIN stats \cup {tid} |-> IF k = tid THEN new ELSE stats[k]]

\* TypedEventBus::total_published: stats.iter().map(|s| s.published).sum()
RECURSIVE sum_published(_, _)
sum_published(stats, keys) ==
    IF keys = {} THEN 0
    ELSE LET k == CHOOSE x \in keys : TRUE
         IN  stats[k].published + sum_published(stats, keys \ {k})
total_published(tb) == sum_published(tb.stats, DOMAIN tb.stats)

NoHandle == [pc |-> "none", type |-> "none", got |-> << >>]
Handles == 1..MaxHandles
notTyped == <<COUNTER, bus, pubs, listeners, calls, recorder, recCalls, recTasks,
             replay, aloneVars>>

InitTyped ==
    /\ tbus = [channels |-> << >>, stats |-> << >>, panicked |-> FALSE,
               last |-> NoResult, made |-> 0]
    /\ handles = [h \in Handles |-> NoHandle]
    /\ tcalls = 0
    /\ IdleBus /\ IdleRecorder /\ IdleReplay /\ IdleAlone

\* Every handle subscribe::<E>() returned has been dropped (and there was one)
Orphaned(E) ==
    /\ \E h \in Handles : handles[h].pc = "dropped" /\ handles[h].type = E
    /\ \A h \in Handles : handles[h].type = E => handles[h].pc = "dropped"

\* A publish that enqueues the event on every registered channel.
typed_publish_broadcast(E, event) ==
    /\ tcalls < MaxTypedCalls
    /\ ~tbus.panicked
    /\ LET tb  == get_or_create_channel(tbus, E)
           tid == TypeId_of(E)
       IN  /\ \A k \in DOMAIN tb.channels : Len(tb.channels[k].queue) < tb.channels[k].cap
           /\ tbus' = [tb EXCEPT
                 !.channels = [k \in DOMAIN tb.channels |->
                                 [tb.channels[k] EXCEPT !.queue = Append(@, event)]],
                 !.stats = typed_stat(@, tid, "published")]
    /\ tcalls' = tcalls + 1
    /\ UNCHANGED <<handles, notTyped>>

\* TypedEventBus::publish::<E>(event); a call that finds the queue full
\* waits inside send and completes once there is room.
typed_publish(E, event) ==
    /\ tcalls < MaxTypedCalls
    /\ ~tbus.panicked
    /\ LET tb  == get_or_create_channel(tbus, E)
           tid == TypeId_of(E)
       IN  IF tb.panicked
           THEN tbus' = tb
           ELSE LET r == FastChannel_send(tb.channels[tid], event) IN
                /\ r.kind # "Full"
                /\ tbus' = [tb EXCEPT
                      !.channels[tid] = r.ch,
                      !.stats = IF r.kind = "Ok"
                                THEN typed_stat(@, tid, "published") ELSE @,
                      !.last = [type |-> E, kind |-> r.kind,
                                orphaned |-> Orphaned(E)]]
    /\ tcalls' = tcalls + 1
    /\ UNCHANGED <<handles, notTyped>>

\* TypedEventBus::subscribe::<E>()
typed_subscribe(h, E) ==
    /\ handles[h].pc = "none"
    /\ ~tbus.panicked
    /\ LET tb  == get_or_create_channel(tbus, E)
           tid == TypeId_of(E)
       IN  IF tb.panicked
           THEN /\ tbus' = tb
                /\ UNCHANGED handles
           ELSE /\ tbus' = [tb EXCEPT
                      !.stats = typed_stat(@, tid, "subscribers"),
                      !.channels[tid] = FastChannel_receiver(@)]
                /\ handles' = [handles EXCEPT ![h] =
                      [pc |-> "live", type |-> E, got |-> << >>]]
    /\ UNCHANGED <<tcalls, notTyped>>

\* rx.recv() on a handle returned by subscribe::<E>(); waits while empty
typed_recv(h) ==
    /\ handles[h].pc = "live"
    /\ LET tid == TypeId_of(handles[h].type)
           r   == Receiver_take(tbus.channels[tid])
       IN  /\ r.kind = "Ok"
           /\ tbus' = [tbus EXCEPT !.channels[tid] = r.ch]
           /\ handles' = [handles EXCEPT ![h].got = Append(@, r.event)]
    /\ UNCHANGED <<tcalls, notTyped>>

\* The handle goes out of scope: Drop for flume::Receiver
typed_drop(h) ==
    /\ handles[h].pc = "live"
    /\ LET tid == TypeId_of(handles[h].type) IN
         tbus' = [tbus EXCEPT !.channels[tid].receivers = @ - 1]
    /\ handles' = [handles EXCEPT ![h].pc = "dropped"]
    /\ UNCHANGED <<tcalls, notTyped>>

NextTyped ==
    \/ \E E \in TypedTypes : typed_publish(E, TypedEvent(E, tcalls + 1))
    \/ \E h \in Handles, E \in TypedTypes : typed_subscribe(h, E)
    \/ \E h \in Handles : typed_recv(h)
    \/ \E h \in Handles : typed_drop(h)

SpecTyped == InitTyped /\ [][NextTyped]_vars


\* Every place a published message with this id has been handed to a handle
Receipts(id) ==
    {<<h, i>> \in Handles \X (1..MaxTypedCalls + 1) :
        i <= Len(handles[h].got) /\ handles[h].got[i].id = id}

\* Every place a message with this id is still queued
Queued(id) ==
    {<<k, i>> \in (DOMAIN tbus.channels) \X (1..MaxTypedCalls + 1) :
        i <= Len(tbus.channels[k].queue) /\ tbus.channels[k].queue[i].id = id}

\* The length of the queue of type E (0 while its channel is not yet created)
QueueLen(tb, E) ==
    IF HasKey(tb.channels, TypeId_of(E))
    THEN FastChannel_len(tb.channels[TypeId_of(E)]) ELSE 0

\* C2: on the typed bus, whatever the number of handles and the interleaving
\* of publish and receive calls, a published message is received by at most
\* one handle, at most once, and a received message is no longer queued for
\* any other handle.
C2_CompetingConsumers ==
    \A id \in 1..MaxTypedCalls + 1 :
        /\ Cardinality(Receipts(id)) <= 1
        /\ Receipts(id) # {} => Queued(id) = {}

\* Two live handles of one type have each received a message of that type.
C2_Witness ==
    \E h1, h2 \in Handles :
        /\ h1 # h2
        /\ handles[h1].pc = "live" /\ handles[h2].pc = "live"
        /\ handles[h1].type = handles[h2].type
        /\ handles[h1].got # << >> /\ handles[h2].got # << >>

\* C10: a handle returned by subscribe<B>() only ever receives messages that
\* were published as type B, and a publish call changes the queue length of
\* no type other than the type of the message it published.
C10_TypeIsolation ==
    /\ [](\A h \in Handles : \A i \in 1..Len(handles[h].got) :
              handles[h].got[i].type = handles[h].type)
    /\ [][tcalls' = tcalls + 1 =>
              \A B \in TypedTypes :
                  QueueLen(tbus', B) # QueueLen(tbus, B) =>
                      LET q == tbus'.channels[TypeId_of(B)].queue
                      IN  q[Len(q)] = TypedEvent(B, tcalls')]_vars

\* Handles of two different types are live; the first has received a message
\* of its type while messages of both types are queued.
C10_Witness ==
    \E h1, h2 \in Handles :
        /\ handles[h1].pc = "live" /\ handles[h2].pc = "live"
        /\ handles[h1].type # handles[h2].type
        /\ handles[h1].got # << >>
        /\ QueueLen(tbus, handles[h1].type) > 0
        /\ QueueLen(tbus, handles[h2].type) > 0


-----------------------------------------------------------------------------
(* replay_mode.rs: VirtualClock and EventReplay *)

VirtualClock_new == [current_ns |-> 0, start_ns |-> 0, end_ns |-> 0]

\* A set_bounds that stores the bounds and leaves the current time alone
set_bounds_bounds_only(clock, start_ns, end_ns) ==
    [clock EXCEPT !.start_ns = start_ns, !.end_ns = end_ns]

\* VirtualClock::set_bounds
set_bounds(clock, start_ns, end_ns) ==
    [current_ns |-> start_ns, start_ns |-> start_ns, end_ns |-> end_ns]

\* VirtualClock::advance_to
advance_to(clock, timestamp_ns) == [clock EXCEPT !.current_ns = timestamp_ns]

\* VirtualClock::progress: the f64 quotient as numerator over denominator,
\* 1.0 as 1 over 1
progress(clock) ==
    IF clock.end_ns <= clock.start_ns
    THEN [num |-> 1, den |-> 1]
    ELSE [num |-> clock.current_ns - clock.start_ns,
          den |-> clock.end_ns - clock.start_ns]

\* tests::make_envelope(ts_ns, price): EventEnvelope::new(.., 5) with the
\* timestamp overwritten; seq is the id COUNTER handed out.
make_envelope(seq, ts_ns, T, price) ==
    [EnvelopeNew(seq, 0, Payload(T, price), 5) EXCEPT !.timestamp_ns = ts_ns]

\* A step that puts e in front of the elements with its own key.
RECURSIVE insert_by_key(_, _)
insert_before_equal(sorted, e) ==
    IF sorted = << >>
    THEN <<e>>
    ELSE IF Head(sorted).timestamp_ns < e.timestamp_ns
         THEN <<Head(sorted)>> \o insert_by_key(Tail(sorted), e)
         ELSE <<e>> \o sorted

\* One step of the stable sort: e goes behind every element whose key is
\* not greater than its own.
insert_by_key(sorted, e) ==
    IF sorted = << >>
    THEN <<e>>
    ELSE IF Head(sorted).timestamp_ns <= e.timestamp_ns
         THEN <<Head(sorted)>> \o insert_by_key(Tail(sorted), e)
         ELSE <<e>> \o sorted

\* The list kept in the order it was given.
sort_skipped(events) == events

\* events.sort_by_key(|e| e.timestamp_ns): stable, ascending
RECURSIVE sort_by_key(_)
sort_by_key(events) ==
    IF events = << >>
    THEN << >>
    ELSE insert_by_key(sort_by_key(SubSeq(events, 1, Len(events) - 1)),
                       events[Len(events)])

\* replay_mode.rs:241: delays up to this many nanoseconds are not slept
SLEEP_THRESHOLD_NS == 1000000

\* ReplaySpeed: Max, Realtime, Multiplier(m) with m = num / den
SpeedMax == [kind |-> "Max", num |-> 1, den |-> 1]
SpeedRealtime == [kind |-> "Realtime", num |-> 1, den |-> 1]
SpeedMultiplier(num, den) == [kind |-> "Multiplier", num |-> num, den |-> den]

\* Lines 231-235: the multiplier of a speed that paces, as num / den
multiplier(speed) ==
    IF speed.kind = "Realtime" THEN [num |-> 1, den |-> 1]
    ELSE [num |-> speed.num, den |-> speed.den]

\* Line 240: (virtual_delta_ns as f64 / multiplier) as u64, for a positive
\* delta and a positive multiplier: the quotient with its fraction cut off
wall_delay_ns(virtual_delta_ns, m) == (virtual_delta_ns * m.den) \div m.num

\* A test that also sleeps a delay of exactly the threshold
should_sleep_from_threshold(delay_ns) == delay_ns >= SLEEP_THRESHOLD_NS

\* Line 241: if wall_delay_ns > 1_000_000
should_sleep(delay_ns) == delay_ns > SLEEP_THRESHOLD_NS

\* Lines 228-248: the delay run sleeps before the i-th event of the list
\* (1-based here), 0 when it does not sleep
speed_control(speed, events, i) ==
    IF speed.kind = "Max" THEN 0
    ELSE IF i > 1
         THEN LET virtual_delta_ns == events[i].timestamp_ns - events[i - 1].timestamp_ns
              IN  IF virtual_delta_ns > 0
                  THEN LET delay == wall_delay_ns(virtual_delta_ns, multiplier(speed))
                       IN  IF should_sleep(delay) THEN delay ELSE 0
                  ELSE 0
         ELSE 0

\* progress_interval: 10_000 in EventReplay::new
DEFAULT_PROGRESS_INTERVAL == 10000

\* EventReplay::new(bus, speed)
EventReplay_new ==
    [pc |-> "new", events |-> << >>, clock |-> VirtualClock_new,
     speed |-> SpeedMax, delay |-> 0, slept |-> << >>, virtual_span |-> 0,
     input |-> << >>, taken |-> << >>, i |-> 0, call |-> IdlePublisher,
     events_replayed |-> 0, remaining |-> << >>, until |-> FALSE, end_ns |-> 0,
     batch |-> << >>, played |-> << >>, earlier |-> << >>,
     ncalls |-> 0, maxruns |-> 1,
     on_event |-> FALSE, on_progress |-> FALSE,
     progress_interval |-> DEFAULT_PROGRESS_INTERVAL, log |-> << >>,
     wraps |-> << >>]

\* EventReplay::on_event(callback): self.on_event = Some(callback)
on_event(r) == [r EXCEPT !.on_event = TRUE]

\* EventReplay::on_progress(interval, callback)
on_progress(r, interval) ==
    [r EXCEPT !.progress_interval = interval, !.on_progress = TRUE]

\* Lines 255-266 for the envelope at loop index i (counted from 0, as
\* enumerate() counts): the per-event callback, then the progress callback.
\* The log keeps the calls the two callbacks receive, in order.
callbacks(r, i, envelope) ==
    LET seen == IF r.on_event
                THEN Append(r.log, [cb |-> "on_event", i |-> i, id |-> envelope.id])
                ELSE r.log
    IN  IF r.on_progress /\ i > 0 /\ i % r.progress_interval = 0
        THEN Append(seen, [cb |-> "on_progress", i |-> i, id |-> envelope.id,
                           progress |-> progress(r.clock)])
        ELSE seen

\* EventReplay::load_events
load_events(r, events) ==
    LET sorted == sort_by_key(events) IN
    [r EXCEPT !.events = sorted,
              !.clock = IF sorted # << >>
                        THEN set_bounds(@, sorted[1].timestamp_ns,
                                        sorted[Len(sorted)].timestamp_ns)
                        ELSE @]

Stamped == Stamps \X BusTypes
notReplay == <<pubs, listeners, calls, recorder, recCalls, recTasks, tbus, handles,
              tcalls, aloneVars>>

InitReplay ==
    /\ COUNTER = 1
    /\ bus = EventBus_new(NoRecorder)
    /\ pubs = [p \in Tasks |-> IdlePublisher]
    /\ listeners = [l \in Listeners |-> NoListener]
    /\ calls = [started |-> 0, done |-> << >>, max |-> MaxCalls]
    /\ replay = EventReplay_new
    /\ IdleRecorder /\ IdleTyped /\ IdleAlone

\* The caller builds n envelopes (the k-th carries price k) and hands the
\* list to replay.load_events.
replay_load_events(n, f) ==
    /\ replay.pc = "new"
    /\ LET events == [k \in 1..n |-> make_envelope(COUNTER + k - 1, f[k][1], f[k][2], k)]
       IN  replay' = [load_events(replay, events) EXCEPT !.pc = "loaded",
                                                         !.input = events]
    /\ COUNTER' = COUNTER + n
    /\ UNCHANGED <<bus, notReplay>>

\* A run or run_until call starts on r: what it finds loaded is noted, and
\* what earlier calls published is kept apart from what this one publishes.
call_begins(r, until, end_ns) ==
    [r EXCEPT !.until = until, !.end_ns = end_ns, !.batch = r.events,
              !.slept = << >>, !.delay = 0, !.log = << >>,
              !.earlier = r.earlier \o r.played, !.played = << >>,
              !.ncalls = @ + 1]

\* Where run returns to: its caller, or the rest of run_until
run_returns(r) == IF r.until THEN "extend" ELSE "done"

\* The span taken from the last event back to the first
virtual_span_reversed(events) ==
    events[1].timestamp_ns - events[Len(events)].timestamp_ns

\* Lines 209-211: last_event_ns - first_event_ns
virtual_span_of(events) ==
    events[Len(events)].timestamp_ns - events[1].timestamp_ns

\* EventReplay::run up to the loop: the early return for an empty list,
\* else the events are taken out of self.
run_begin(r) ==
    IF Len(r.events) = 0
    THEN [r EXCEPT !.pc = run_returns(r), !.events_replayed = 0,
                   !.virtual_span = 0]
    ELSE [r EXCEPT !.pc = "advance", !.taken = r.events,
                   !.events = << >>, !.i = 1,
                   !.virtual_span = virtual_span_of(r.events)]

run ==
    /\ replay.pc \in {"new", "loaded", "done"}
    /\ replay.ncalls < replay.maxruns
    /\ replay' = run_begin(call_begins(replay, FALSE, 0))
    /\ UNCHANGED <<COUNTER, bus, notReplay>>

\* A partition point that leaves out the envelopes stamped end_ns itself
partition_point_before(events, end_ns) ==
    Cardinality({k \in 1..Len(events) :
        \A j \in 1..k : events[j].timestamp_ns < end_ns})

\* self.events.partition_point(|e| e.timestamp_ns <= end_ns): the length of
\* the leading part of the list on which the predicate holds
partition_point(events, end_ns) ==
    Cardinality({k \in 1..Len(events) :
        \A j \in 1..k : events[j].timestamp_ns <= end_ns})

\* An extend that appends nothing
extend_nothing(events, remaining) == events

\* self.events.extend(remaining)
extend(events, remaining) == events \o remaining

\* EventReplay::run_until up to the loop of run: the list is cut at the
\* partition point, the tail set aside, and run starts on the head.
run_until(end_ns) ==
    /\ replay.pc \in {"new", "loaded", "done"}
    /\ replay.ncalls < replay.maxruns
    /\ LET r      == call_begins(replay, TRUE, end_ns)
           cutoff == partition_point(replay.events, end_ns)
       IN  replay' = run_begin(
              [r EXCEPT !.events = SubSeq(replay.events, 1, cutoff),
                        !.remaining = SubSeq(replay.events, cutoff + 1,
                                             Len(replay.events))])
    /\ UNCHANGED <<COUNTER, bus, notReplay>>

\* EventReplay::run_until after run has returned: the tail is put back
run_until_extend ==
    /\ replay.pc = "extend"
    /\ replay' = [replay EXCEPT !.pc = "done",
                                !.events = extend(@, replay.remaining),
                                !.remaining = << >>]
    /\ UNCHANGED <<COUNTER, bus, notReplay>>

\* Loop body: self.clock.advance_to(envelope.timestamp_ns), then the speed
\* control, which either goes on to the publish or starts a sleep.
run_advance ==
    /\ replay.pc = "advance"
    /\ LET delay == speed_control(replay.speed, replay.taken, replay.i) IN
         replay' = [replay EXCEPT
            !.clock = advance_to(@, replay.taken[replay.i].timestamp_ns),
            !.delay = delay,
            !.slept = IF delay > 0 THEN @ ELSE Append(@, 0),
            !.pc = IF delay > 0 THEN "sleep" ELSE "publish"]
    /\ UNCHANGED <<COUNTER, bus, notReplay>>

\* Line 243: tokio::time::sleep(Duration::from_nanos(wall_delay_ns)).await
\* has elapsed
run_sleep ==
    /\ replay.pc = "sleep"
    /\ replay' = [replay EXCEPT !.pc = "publish",
                                !.slept = Append(@, replay.delay),
                                !.delay = 0]
    /\ UNCHANGED <<COUNTER, bus, notReplay>>

\* A publish that sends the loaded envelope on as it is
republish_loaded(counter, now, loaded) == loaded

\* self.bus.publish(&*envelope.event): the payload alone is handed to
\* EventBus::publish, which calls publish_with_priority(event, 5), which
\* wraps it with EventEnvelope::new(event, priority).
republish(counter, now, loaded) == EnvelopeNew(counter, now, loaded.event, 5)

\* The publish of the loop body starts. wraps keeps, for every publish the
\* replay has made, the id counter and the time it found and the loaded
\* envelope it took the payload from.
run_publish ==
    /\ replay.pc = "publish"
    /\ \E now \in Times :
         replay' = [replay EXCEPT
            !.pc = "entry",
            !.played = Append(@, replay.taken[replay.i]),
            !.wraps = Append(@, [counter |-> COUNTER, now |-> now,
                                 loaded |-> replay.taken[replay.i]]),
            !.call = [IdlePublisher EXCEPT
                        !.envelope = republish(COUNTER, now,
                                               replay.taken[replay.i])]]
    /\ COUNTER' = COUNTER + 1
    /\ UNCHANGED <<bus, notReplay>>

\* bus.rs lines 67-72 inside that publish
run_entry ==
    /\ replay.pc = "entry"
    /\ LET key == event_type_name(replay.call.envelope.event)
           b   == channels_entry(bus, key)
       IN  /\ bus' = b
           /\ replay' = [replay EXCEPT !.pc = "send",
                                       !.call.sender = b.channels[key]]
    /\ UNCHANGED <<COUNTER, notReplay>>

\* bus.rs line 75 inside that publish
run_send ==
    /\ replay.pc = "send"
    /\ LET c == replay.call.sender
           r == Sender_send(bus.chans[c], replay.call.envelope)
       IN  /\ bus' = [bus EXCEPT !.chans[c] = r.ch]
           /\ replay' = [replay EXCEPT !.pc = "stat", !.call.ok = r.ok,
                                       !.call.audience = Live]
    /\ UNCHANGED <<COUNTER, notReplay>>

\* bus.rs lines 76-83 inside that publish, then the callbacks of lines
\* 255-266 and the next loop iteration
run_stat ==
    /\ replay.pc = "stat"
    /\ bus' = [bus EXCEPT !.stats =
                 stat_after_send(@, event_type_name(replay.call.envelope.event),
                                 replay.call.ok)]
    /\ replay' = [replay EXCEPT
          !.call = [IdlePublisher EXCEPT !.ret = "Ok"],
          !.log = callbacks(replay, replay.i - 1, replay.taken[replay.i]),
          !.i = @ + 1,
          !.pc = IF replay.i = Len(replay.taken) THEN "finish" ELSE "advance"]
    /\ UNCHANGED <<COUNTER, notReplay>>

\* The played events dropped instead of put back
put_back_nothing(events) == << >>

\* self.events = events, after the loop
put_back(events) == events

\* After the loop: the events are put back and the stats returned
run_finish ==
    /\ replay.pc = "finish"
    /\ replay' = [replay EXCEPT !.pc = run_returns(replay),
                                !.events = put_back(replay.taken),
                                !.taken = << >>,
                                !.events_replayed = Len(replay.taken)]
    /\ UNCHANGED <<COUNTER, bus, notReplay>>

NextReplay ==
    \/ \E n \in 0..MaxLoad : \E f \in [1..n -> Stamped] : replay_load_events(n, f)
    \/ run
    \/ run_advance
    \/ run_publish
    \/ run_entry
    \/ run_send
    \/ run_stat
    \/ run_finish
    \/ \E l \in Listeners, k \in BusKeys : subscribe(l, k)
    \/ \E l \in Listeners : subscribe_market_data(l)
    \/ \E l \in Listeners : subscribe_attach(l)
    \/ \E l \in Listeners : recv(l)

SpecReplay == InitReplay /\ [][NextReplay]_vars

\* The timestamp the delivered payload carried in the list given to
\* load_events (the k-th loaded envelope carries price k).
LoadedStamp(envelope) == replay.input[envelope.event.data].timestamp_ns

\* C3: whatever the order of the list given to load_events, the envelopes a
\* run delivers to a subscriber arrive in ascending order of the loaded
\* timestamp_ns, and none arrives twice.
C3_ReplayOrdering ==
    \A l \in Listeners :
        LET D == Delivered(l) IN
        \A a, b \in 1..Len(D) :
            a < b => /\ LoadedStamp(D[a]) <= LoadedStamp(D[b])
                     /\ D[a].event.data # D[b].event.data

\* Loaded as 3, 1, 2; the run is over and a subscriber of the type holds all
\* three, the one loaded second first.
C3_Witness ==
    /\ replay.pc = "done"
    /\ Len(replay.input) = 3
    /\ [k \in 1..3 |-> replay.input[k].timestamp_ns] = <<3, 1, 2>>
    /\ \E l \in Listeners :
          /\ Len(Delivered(l)) = 3
          /\ [k \in 1..3 |-> Delivered(l)[k].event.data] = <<2, 3, 1>>


\* C14 (as claimed): a publish<E> made when every handle subscribe<E>()
\* returned has been dropped fails with Disconnected.
C14_DisconnectedAfterDrop ==
    tbus.last.orphaned => tbus.last.kind = "Disconnected"


-----------------------------------------------------------------------------
(* SpecUntil: run and run_until called one after the other on one batch *)

OneType == {f \in UNION {[1..n -> Stamped] : n \in 0..MaxLoad} :
               \A k \in DOMAIN f : f[k][2] = "MarketDataEvent"}

InitUntil ==
    /\ COUNTER = 1
    /\ bus = EventBus_new(NoRecorder)
    /\ pubs = [p \in Tasks |-> IdlePublisher]
    /\ listeners = [l \in Listeners |-> NoListener]
    /\ calls = [started |-> 0, done |-> << >>, max |-> MaxCalls]
    /\ replay = [EventReplay_new EXCEPT !.maxruns = MaxRuns]
    /\ IdleRecorder /\ IdleTyped /\ IdleAlone

NextUntil ==
    \/ \E f \in OneType : replay_load_events(Len(f), f)
    \/ run
    \/ \E end_ns \in 0..MaxStamp : run_until(end_ns)
    \/ run_until_extend
    \/ run_advance
    \/ run_publish
    \/ run_entry
    \/ run_send
    \/ run_stat
    \/ run_finish
    \/ subscribe(1, event_type("MarketDataEvent"))
    \/ subscribe_attach(1)
    \/ recv(1)

SpecUntil == InitUntil /\ [][NextUntil]_vars

\* The envelopes of a list stamped at most / later than end_ns, in list order
UpTo(events, end_ns) == SelectSeq(events, LAMBDA e : e.timestamp_ns <= end_ns)
After(events, end_ns) == SelectSeq(events, LAMBDA e : e.timestamp_ns > end_ns)

\* The list is in ascending order of timestamp_ns
Ascending(events) ==
    \A a, b \in 1..Len(events) :
        a < b => events[a].timestamp_ns <= events[b].timestamp_ns

\* C15: a run_until(end_ns) call publishes no envelope stamped later than
\* end_ns, and when it returns it has published exactly the loaded envelopes
\* stamped at most end_ns, in ascending timestamp order, and reports their
\* number as events_replayed (0 when there is none).
C15_RunUntilPrefix ==
    replay.until =>
       /\ \A k \in 1..Len(replay.played) :
             replay.played[k].timestamp_ns <= replay.end_ns
       /\ Ascending(replay.played)
       /\ replay.pc = "done" =>
             /\ replay.played = UpTo(replay.batch, replay.end_ns)
             /\ replay.events_replayed = Len(replay.played)

\* A run_until call has returned after publishing some of the loaded
\* envelopes, one of them stamped end_ns itself, and leaving others out.
C15_Witness ==
    /\ replay.until /\ replay.pc = "done"
    /\ Len(replay.played) >= 1 /\ Len(replay.played) < Len(replay.batch)
    /\ replay.played[Len(replay.played)].timestamp_ns = replay.end_ns
    /\ replay.events_replayed = Len(replay.played)

\* C16: when a run_until(end_ns) call has returned, every envelope that was
\* loaded and is stamped later than end_ns is still loaded, in the same
\* relative order, and the loaded list is still in ascending timestamp
\* order; so also for a second call and for a call whose prefix is empty.
C16_RemainderKept ==
    (replay.until /\ replay.pc = "done") =>
       /\ After(replay.events, replay.end_ns) = After(replay.batch, replay.end_ns)
       /\ Ascending(replay.events)

\* The second of two run_until calls has returned; its prefix was empty and
\* envelopes stamped later than its end_ns are loaded.
C16_Witness ==
    /\ replay.until /\ replay.pc = "done" /\ replay.ncalls = 2
    /\ replay.played = << >>
    /\ replay.earlier # << >>
    /\ Len(After(replay.events, replay.end_ns)) >= 2

\* C17 (as claimed): when a run_until(end_ns) call has returned, the list
\* left loaded is the envelopes it did not play, those stamped later than
\* end_ns, so that event_count() is their number.
C17_UnplayedSuffixLeft ==
    (replay.until /\ replay.pc = "done") =>
       replay.events = After(replay.batch, replay.end_ns)

\* C17 (amended): when a run_until(end_ns) call has returned, the list left
\* loaded is the whole list that was loaded before the call, the played
\* envelopes followed by the unplayed ones, so that event_count() is
\* unchanged; and a run() called after it publishes that whole list again,
\* from its first envelope.
C17_WholeBatchLeft ==
    /\ (replay.until /\ replay.pc = "done") =>
          /\ replay.events = replay.batch
          /\ replay.events = replay.played \o After(replay.batch, replay.end_ns)
    /\ (~replay.until /\ replay.pc = "done" /\ replay.ncalls >= 1) =>
          /\ replay.played = replay.batch
          /\ replay.batch = sort_by_key(replay.input)

\* A run() has returned after a run_until that had played part of the list,
\* and has published the envelopes of that part once more.
C17_Witness ==
    /\ ~replay.until /\ replay.pc = "done" /\ replay.ncalls = 2
    /\ replay.earlier # << >>
    /\ Len(replay.earlier) < Len(replay.batch)
    /\ SubSeq(replay.played, 1, Len(replay.earlier)) = replay.earlier


\* The list is ascending in timestamp_ns and envelopes with equal
\* timestamp_ns stand in the order of the input (the k-th input envelope
\* carries price k).
StablySorted(events) ==
    \A a, b \in 1..Len(events) :
        a < b => \/ events[a].timestamp_ns < events[b].timestamp_ns
                 \/ /\ events[a].timestamp_ns = events[b].timestamp_ns
                    /\ events[a].event.data < events[b].event.data

\* C18: the batch load_events leaves loaded holds every input envelope once
\* and nothing else, is non-decreasing in timestamp_ns, and keeps envelopes
\* of equal timestamp_ns in their input order; run() publishes the batch in
\* that order.
C18_StableSort ==
    /\ replay.pc = "loaded" =>
          /\ Len(replay.events) = Len(replay.input)
          /\ \A k \in 1..Len(replay.input) :
                Cardinality({a \in 1..Len(replay.events) :
                                replay.events[a] = replay.input[k]}) = 1
          /\ StablySorted(replay.events)
    /\ StablySorted(replay.played)
    /\ replay.pc = "done" => replay.played = sort_by_key(replay.input)

\* Loaded as 2, 2, 1: the run has published the third envelope first, then
\* the first, then the second.
C18_Witness ==
    /\ replay.pc = "done"
    /\ [k \in 1..Len(replay.input) |-> replay.input[k].timestamp_ns] = <<2, 2, 1>>
    /\ [k \in 1..Len(replay.played) |-> replay.played[k].event.data] = <<3, 1, 2>>


\* The 0-based index, among the record calls since construction or the last
\* clear, of the call that recorded this envelope (ids are handed out in
\* call order, one per record call).
RecordIndex(envelope) == envelope.id - 1 - (recCalls.total - recCalls.since)

\* C19: for capacity C >= 1 and n record calls since construction or the
\* last clear, slot j of the buffer holds the latest recorded envelope whose
\* record index is congruent to j mod C; so for n > C the snapshot is the C
\* latest envelopes, and it is in insertion order exactly when n <= C or
\* n mod C = 0 (otherwise a proper rotation of it).
C19_OverwritesOldest ==
    recorder.capacity >= 1 =>
       LET C    == recorder.capacity
           n    == recCalls.since
           snap == get_events(recorder)
       IN  /\ \A j \in 0..Len(snap) - 1 :
                 LET i == RecordIndex(snap[j + 1]) IN
                 /\ i % C = j
                 /\ i < n /\ i + C >= n
           /\ n > C => {RecordIndex(snap[k]) : k \in 1..Len(snap)} = (n - C)..(n - 1)
           /\ (n <= C \/ n % C = 0) <=>
                 \A a, b \in 1..Len(snap) : a < b => snap[a].id < snap[b].id

\* Capacity 2 and, after a clear, three record calls: the snapshot is the
\* third recorded envelope followed by the second.
C19_Witness ==
    /\ recorder.capacity = 2
    /\ recCalls.since = 3 /\ recCalls.total > recCalls.since
    /\ Len(get_events(recorder)) = 2
    /\ RecordIndex(get_events(recorder)[1]) = 2
    /\ RecordIndex(get_events(recorder)[2]) = 1


-----------------------------------------------------------------------------
(* SpecLocks: concurrent tasks on one EventRecorder and its two RwLocks *)

\* RwLock::read() / RwLock::write(): the caller joins the queue
RwLock_request(lock, t, mode) == [lock EXCEPT !.queue = Append(@, <<t, mode>>)]

\* The request at the head of the queue can be granted: no writer holds the
\* lock and, for a write request, no reader either.
RwLock_grantable(lock, t) ==
    /\ lock.queue # << >>
    /\ Head(lock.queue)[1] = t
    /\ lock.writer = "none"
    /\ Head(lock.queue)[2] = "write" => lock.readers = {}

RwLock_grant(lock, t) ==
    IF Head(lock.queue)[2] = "write"
    THEN [lock EXCEPT !.writer = t, !.queue = Tail(@)]
    ELSE [lock EXCEPT !.readers = @ \cup {t}, !.queue = Tail(@)]

\* Drop of the guard
RwLock_release(lock, t) ==
    [lock EXCEPT !.writer = IF @ = t THEN "none" ELSE @, !.readers = @ \ {t}]

\* record, lines 31-32: events.write() then position.write()
record_guards == <<<<"events", "write">>, <<"position", "write">>>>

\* The two guards taken in the other order
clear_guards_reversed == <<<<"position", "write">>, <<"events", "write">>>>

\* clear, lines 60-61: events.write() then position.write()
clear_guards == <<<<"events", "write">>, <<"position", "write">>>>

\* get_events, get_events_in_range, len, is_empty: events.read()
read_guards == <<<<"events", "read">>>>

ReadOps == {"get_events", "get_events_in_range", "len", "is_empty"}
RecOps == {"record", "clear"} \cup ReadOps

guards_of(op) ==
    CASE op = "record" -> record_guards
      [] op = "clear"  -> clear_guards
      [] OTHER         -> read_guards

InitLocks ==
    /\ \E c \in 1..MaxLockCapacity : recorder = EventRecorder_new(c)
    /\ recCalls = NoRecCalls
    /\ recTasks = NoRecTasks
    /\ IdleBus /\ IdleTyped /\ IdleReplay /\ IdleAlone

\* A task calls one of the recorder's methods (for record, with an envelope
\* it has just built).
rec_call(t, op) ==
    /\ recTasks.tasks[t].pc = "idle"
    /\ recTasks.ops < MaxRecOps
    /\ recTasks' = [recTasks EXCEPT
          !.ops = @ + 1,
          !.tasks[t] = [IdleRecTask EXCEPT
              !.pc = "request", !.op = op, !.need = guards_of(op),
              !.envelope = IF op = "record"
                           THEN EnvelopeNew(COUNTER, 1, Payload("MarketDataEvent", 1), 5)
                           ELSE NoEnvelope]]
    /\ COUNTER' = IF op = "record" THEN COUNTER + 1 ELSE COUNTER
    /\ UNCHANGED <<recorder, recCalls, bus, pubs, listeners, calls, tbus, handles,
                   tcalls, replay, aloneVars>>

\* The call reaches its next .read().await / .write().await
rec_request(t) ==
    /\ recTasks.tasks[t].pc = "request"
    /\ LET want == Head(recTasks.tasks[t].need) IN
         recTasks' = [recTasks EXCEPT
            !.locks[want[1]] = RwLock_request(@, t, want[2]),
            !.tasks[t].pc = "wait"]
    /\ UNCHANGED <<COUNTER, recorder, recCalls, bus, pubs, listeners, calls, tbus,
                   handles, tcalls, replay, aloneVars>>

\* The await completes with the guard
rec_granted(t) ==
    /\ recTasks.tasks[t].pc = "wait"
    /\ LET want == Head(recTasks.tasks[t].need) IN
         /\ RwLock_grantable(recTasks.locks[want[1]], t)
         /\ recTasks' = [recTasks EXCEPT
               !.locks[want[1]] = RwLock_grant(@, t),
               !.tasks[t].need = Tail(@),
               !.tasks[t].held = Append(@, want[1]),
               !.tasks[t].pc = IF Len(recTasks.tasks[t].need) = 1
                               THEN "body" ELSE "request"]
    /\ UNCHANGED <<COUNTER, recorder, recCalls, bus, pubs, listeners, calls, tbus,
                   handles, tcalls, replay, aloneVars>>

\* With its guards held the call works on the buffer: record pushes or
\* overwrites (lines 34-39), clear empties (line 62), the readers copy or
\* measure what they see.
rec_body(t) ==
    /\ recTasks.tasks[t].pc = "body"
    /\ LET op == recTasks.tasks[t].op
           ev == recorder.events
       IN  /\ recorder' =
                 CASE op = "record" ->
                        [recorder EXCEPT !.events =
                            record(recorder, recTasks.tasks[t].envelope).events]
                   [] op = "clear" -> [recorder EXCEPT !.events = << >>]
                   [] OTHER -> recorder
           /\ recCalls' =
                 CASE op = "record" -> [recCalls EXCEPT !.since = @ + 1,
                                                        !.total = @ + 1]
                   [] op = "clear" -> [recCalls EXCEPT !.since = 0]
                   [] OTHER -> recCalls
           /\ recTasks' = [recTasks EXCEPT
                 !.tasks[t].pc = IF op \in ReadOps THEN "release" ELSE "cursor",
                 !.tasks[t].ret =
                    CASE op = "get_events" -> get_events(recorder)
                      [] op = "get_events_in_range" -> get_events_in_range(ev, 1, 1)
                      [] op = "len" -> <<Len(ev)>>
                      [] op = "is_empty" -> <<Len(ev) = 0>>
                      [] OTHER -> << >>]
    /\ UNCHANGED <<COUNTER, bus, pubs, listeners, calls, tbus, handles, tcalls, replay,
                   aloneVars>>

\* record line 41: *pos = (*pos + 1) % capacity; clear line 63: *pos = 0
rec_cursor(t) ==
    /\ recTasks.tasks[t].pc = "cursor"
    /\ recorder' = [recorder EXCEPT !.position =
                      IF recTasks.tasks[t].op = "record"
                      THEN (@ + 1) % recorder.capacity ELSE 0]
    /\ recTasks' = [recTasks EXCEPT !.tasks[t].pc = "release"]
    /\ UNCHANGED <<COUNTER, recCalls, bus, pubs, listeners, calls, tbus, handles,
                   tcalls, replay, aloneVars>>

\* End of the call: the guards are dropped, the one taken last first
rec_release(t) ==
    /\ recTasks.tasks[t].pc = "release"
    /\ LET held == recTasks.tasks[t].held
           last == held[Len(held)]
       IN  recTasks' = [recTasks EXCEPT
              !.locks[last] = RwLock_release(@, t),
              !.tasks[t].held = SubSeq(held, 1, Len(held) - 1),
              !.tasks[t].pc = IF Len(held) = 1 THEN "idle" ELSE "release"]
    /\ UNCHANGED <<COUNTER, recorder, recCalls, bus, pubs, listeners, calls, tbus,
                   handles, tcalls, replay, aloneVars>>

NextLocks ==
    \/ \E t \in Tasks, op \in RecOps : rec_call(t, op)
    \/ \E t \in Tasks : rec_request(t)
    \/ \E t \in Tasks : rec_granted(t)
    \/ \E t \in Tasks : rec_body(t)
    \/ \E t \in Tasks : rec_cursor(t)
    \/ \E t \in Tasks : rec_release(t)

SpecLocks == InitLocks /\ [][NextLocks]_vars


\* The task waits for a guard that cannot be handed to it now
Blocked(t) ==
    /\ recTasks.tasks[t].pc = "wait"
    /\ ~RwLock_grantable(recTasks.locks[Head(recTasks.tasks[t].need)[1]], t)

\* Buffer and cursor agree: after n records since the last clear the buffer
\* holds min(n, capacity) envelopes and the cursor is n mod capacity.
InStep ==
    /\ Len(recorder.events) = Min(recCalls.since, recorder.capacity)
    /\ recorder.position = recCalls.since % recorder.capacity

\* C20: record and clear take the buffer guard first and the cursor guard
\* second; whatever the interleaving of record, clear, get_events,
\* get_events_in_range, len and is_empty, some call in progress can always
\* take its next step (no deadlock); and a record or clear that starts its
\* work, like any task that finds the buffer guard free of a writer, finds
\* buffer and cursor in step, with no other record or clear half done.
C20_LockDiscipline ==
    /\ \A t \in Tasks :
          recTasks.tasks[t].op \in {"record", "clear"} =>
             /\ recTasks.tasks[t].held \in {<< >>, <<"events">>, <<"events", "position">>}
             /\ recTasks.locks.position.writer = t => recTasks.locks.events.writer = t
    /\ (\E t \in Tasks : recTasks.tasks[t].pc # "idle") =>
          \E t \in Tasks : recTasks.tasks[t].pc # "idle" /\ ~Blocked(t)
    /\ \A t \in Tasks :
          (recTasks.tasks[t].op \in {"record", "clear"} /\ recTasks.tasks[t].pc = "body") =>
             /\ InStep
             /\ \A u \in Tasks \ {t} :
                   recTasks.tasks[u].op \in {"record", "clear"} =>
                      recTasks.tasks[u].pc \notin {"body", "cursor"}
    /\ recTasks.locks.events.writer = "none" => InStep

\* One task is inside record with both guards, between the buffer write and
\* the cursor write, while the other has called clear and waits for the
\* buffer guard.
C20_Witness ==
    \E t, u \in Tasks :
       /\ recTasks.tasks[t].op = "record"
       /\ recTasks.tasks[t].pc = "cursor"
       /\ recTasks.tasks[t].held = <<"events", "position">>
       /\ ~InStep
       /\ recTasks.tasks[u].op = "clear"
       /\ Blocked(u)


-----------------------------------------------------------------------------
(* SpecIds: concurrent calls of EventEnvelope::new on the static COUNTER *)

Makers == 1..MaxMakers

\* AtomicU64::fetch_add that returns the value and stores nothing
fetch_add_load_only(counter) == [seq |-> counter, counter |-> counter]

\* COUNTER.fetch_add(1, Ordering::Relaxed): one indivisible read-modify-write
\* that returns the previous value
fetch_add(counter) == [seq |-> counter, counter |-> counter + 1]

\* notBus without the creations
notIds == <<bus, pubs, listeners, calls, recorder, recCalls, recTasks, tbus, handles,
            tcalls, replay, fchan, worker, tclones>>

InitIds ==
    /\ COUNTER = 1
    /\ bus = EventBus_new(NoRecorder)
    /\ pubs = [p \in Tasks |-> IdlePublisher]
    /\ listeners = [l \in Listeners |-> NoListener]
    /\ calls = [started |-> 0, done |-> << >>, max |-> MaxCalls]
    /\ creations = NoCreations
    /\ IdleRecorder /\ IdleTyped /\ IdleReplay
    /\ fchan = NoChannel /\ worker = NoWorker /\ tclones = NoClones

\* A task enters EventEnvelope::new (from a publish on any bus, or directly)
new_call(t) ==
    /\ creations.tasks[t].pc = "idle"
    /\ creations.calls < MaxCreations
    /\ creations' = [creations EXCEPT
          !.clock = @ + 1,
          !.calls = @ + 1,
          !.tasks[t] = [IdleMaker EXCEPT !.pc = "fetch_add", !.start = creations.clock + 1]]
    /\ UNCHANGED <<COUNTER, notIds>>

\* Line 28: let seq = COUNTER.fetch_add(1, Ordering::Relaxed)
new_fetch_add(t) ==
    /\ creations.tasks[t].pc = "fetch_add"
    /\ LET r == fetch_add(COUNTER) IN
         /\ COUNTER' = r.counter
         /\ creations' = [creations EXCEPT !.tasks[t].pc = "now", !.tasks[t].seq = r.seq]
    /\ UNCHANGED notIds

\* Line 34: chrono::Utc::now()
new_now(t) ==
    /\ creations.tasks[t].pc = "now"
    /\ \E now \in Times :
         creations' = [creations EXCEPT !.tasks[t].pc = "return", !.tasks[t].now = now]
    /\ UNCHANGED <<COUNTER, notIds>>

\* Lines 32-37: the envelope is built and returned
new_return(t, event, priority) ==
    /\ creations.tasks[t].pc = "return"
    /\ creations' = [creations EXCEPT
          !.clock = @ + 1,
          !.tasks[t] = IdleMaker,
          !.made = Append(@,
             [envelope |-> EnvelopeNew(creations.tasks[t].seq, creations.tasks[t].now,
                                       event, priority),
              by |-> t,
              start |-> creations.tasks[t].start,
              finish |-> creations.clock + 1])]
    /\ UNCHANGED <<COUNTER, notIds>>

NextIds ==
    \/ \E t \in Makers : new_call(t)
    \/ \E t \in Makers : new_fetch_add(t)
    \/ \E t \in Makers : new_now(t)
    \/ \E t \in Makers, prio \in Priorities :
          new_return(t, Payload("MarketDataEvent", 1), prio)

SpecIds == InitIds /\ [][NextIds]_vars

\* C21: whatever the interleaving of concurrent EventEnvelope::new calls, no
\* two envelopes made carry the same id, and an envelope whose creation began
\* after another's had returned carries a strictly larger id.
C21_UniqueMonotonicIds ==
    \A i, j \in 1..Len(creations.made) :
       LET a == creations.made[i]
           b == creations.made[j]
       IN  /\ i # j => a.envelope.id # b.envelope.id
           /\ a.finish < b.start => a.envelope.id < b.envelope.id

\* Two creations overlapped and the one that returned first carries the
\* larger id; a third, begun after both had returned, was made as well.
C21_Witness ==
    \E i, j, k \in 1..Len(creations.made) :
       LET a == creations.made[i]
           b == creations.made[j]
           c == creations.made[k]
       IN  /\ a.finish < b.finish /\ b.start < a.finish /\ b.envelope.id < a.envelope.id
           /\ a.by # b.by
           /\ b.finish < c.start
           /\ c.envelope.id > a.envelope.id


-----------------------------------------------------------------------------
(* SpecChannel: tasks of one worker thread calling the channel primitive and *)
(* the typed bus, with one more thread using the same queues                *)

\* try_send that makes room by discarding the oldest queued message
FastChannel_try_send_evicting(ch, event) ==
    IF ch.receivers = 0
    THEN [kind |-> "Disconnected", event |-> event, ch |-> ch]
    ELSE IF Len(ch.queue) >= ch.cap
         THEN [kind |-> "Ok", event |-> 0,
               ch |-> [ch EXCEPT !.queue = Append(Tail(@), event)]]
         ELSE [kind |-> "Ok", event |-> 0,
               ch |-> [ch EXCEPT !.queue = Append(@, event)]]

\* FastChannel::try_send -> flume::Sender::try_send: the error carries the
\* rejected event
FastChannel_try_send(ch, event) ==
    IF ch.receivers = 0
    THEN [kind |-> "Disconnected", event |-> event, ch |-> ch]
    ELSE IF Len(ch.queue) >= ch.cap
         THEN [kind |-> "Full", event |-> event, ch |-> ch]
         ELSE [kind |-> "Ok", event |-> 0,
               ch |-> [ch EXCEPT !.queue = Append(@, event)]]

\* FastChannel::try_recv -> flume::Receiver::try_recv
FastChannel_try_recv(ch) ==
    LET r == Receiver_take(ch) IN
    IF r.kind = "Ok" THEN r ELSE [kind |-> r.kind, event |-> 0, ch |-> r.ch]

\* flume's Sender::send / Receiver::recv are the synchronous calls: while the
\* call cannot complete, the calling thread sleeps inside it, so the task
\* that made the call keeps the worker thread.
thread_parks(w, t, op, event) ==
    [w EXCEPT !.tasks[t].pc = "parked", !.tasks[t].op = op, !.tasks[t].event = event]

\* The call of a task returns. What it returned is kept with a note of
\* whether the thread had slept in it, and the messages that went into and
\* came out of the stand-alone channel are counted.
call_returns(w, t, ret) ==
    [w EXCEPT
       !.tasks[t] = [IdleWorkerTask EXCEPT !.ret =
                       [f \in DOMAIN ret \cup {"waited"} |->
                           IF f = "waited" THEN w.tasks[t].pc = "parked" ELSE ret[f]]],
       !.ops = @ + 1,
       !.sent = IF ret.op \in {"send", "try_send"} /\ ret.kind = "Ok"
                THEN @ + 1 ELSE @,
       !.received = IF ret.op \in {"recv", "try_recv"} /\ ret.kind = "Ok"
                    THEN @ + 1 ELSE @]

notChannel == <<COUNTER, bus, pubs, listeners, calls, recorder, recCalls, recTasks,
                handles, tcalls, replay, creations, tclones>>

InitChannel ==
    /\ \E c \in 1..MaxChanCapacity : fchan = FastChannel_bounded("TradeV2", c)
    /\ worker = NoWorker
    /\ IdleBus /\ IdleRecorder /\ IdleTyped /\ IdleReplay
    /\ creations = NoCreations /\ tclones = NoClones

\* The runtime polls a task that is ready
worker_poll(t) ==
    /\ worker.running = "none"
    /\ worker.tasks[t].pc = "idle"
    /\ worker.ops < MaxChanOps
    /\ worker' = [worker EXCEPT !.running = t]
    /\ UNCHANGED <<fchan, tbus, notChannel>>

\* The task reaches an await that is pending, or ends: the thread is free
worker_yield(t) ==
    /\ worker.running = t
    /\ worker.tasks[t].pc = "idle"
    /\ worker' = [worker EXCEPT !.running = "none"]
    /\ UNCHANGED <<fchan, tbus, notChannel>>

\* channel.try_send(event)
ch_try_send(t, event) ==
    /\ worker.running = t
    /\ worker.tasks[t].pc = "idle"
    /\ worker.ops < MaxChanOps
    /\ LET r == FastChannel_try_send(fchan, event) IN
         /\ fchan' = r.ch
         /\ worker' = call_returns(worker, t,
               [op |-> "try_send", kind |-> r.kind, event |-> r.event, given |-> event,
                before |-> fchan, after |-> r.ch])
    /\ UNCHANGED <<tbus, notChannel>>

\* channel.try_recv()
ch_try_recv(t) ==
    /\ worker.running = t
    /\ worker.tasks[t].pc = "idle"
    /\ worker.ops < MaxChanOps
    /\ LET r == FastChannel_try_recv(fchan) IN
         /\ fchan' = r.ch
         /\ worker' = call_returns(worker, t,
               [op |-> "try_recv", kind |-> r.kind, event |-> r.event, given |-> 0,
                before |-> fchan, after |-> r.ch])
    /\ UNCHANGED <<tbus, notChannel>>

\* channel.send(event)
ch_send(t, event) ==
    /\ worker.running = t
    /\ worker.tasks[t].pc = "idle"
    /\ worker.ops < MaxChanOps
    /\ LET r == FastChannel_send(fchan, event) IN
         IF r.kind = "Full"
         THEN /\ worker' = thread_parks(worker, t, "send", event)
              /\ UNCHANGED fchan
         ELSE /\ fchan' = r.ch
              /\ worker' = call_returns(worker, t,
                    [op |-> "send", kind |-> r.kind, event |-> 0, given |-> event,
                     before |-> fchan, after |-> r.ch])
    /\ UNCHANGED <<tbus, notChannel>>

\* channel.recv()
ch_recv(t) ==
    /\ worker.running = t
    /\ worker.tasks[t].pc = "idle"
    /\ worker.ops < MaxChanOps
    /\ LET r == Receiver_take(fchan) IN
         IF r.kind = "Empty"
         THEN /\ worker' = thread_parks(worker, t, "recv", 0)
              /\ UNCHANGED fchan
         ELSE /\ fchan' = r.ch
              /\ worker' = call_returns(worker, t,
                    [op |-> "recv", kind |-> r.kind,
                     event |-> IF r.kind = "Ok" THEN r.event ELSE 0, given |-> 0,
                     before |-> fchan, after |-> r.ch])
    /\ UNCHANGED <<tbus, notChannel>>

\* bus.publish(event) on a TypedEventBus: the channel is looked up or made,
\* then channel.send(event)
ch_publish(t, E, event) ==
    /\ worker.running = t
    /\ worker.tasks[t].pc = "idle"
    /\ worker.ops < MaxChanOps
    /\ LET tb  == get_or_create_channel(tbus, E)
           tid == TypeId_of(E)
           r   == FastChannel_send(tb.channels[tid], event)
       IN  IF r.kind = "Full"
           THEN /\ tbus' = tb
                /\ worker' = thread_parks(worker, t, "publish", event)
           ELSE /\ tbus' = [tb EXCEPT
                      !.channels[tid] = r.ch,
                      !.stats = IF r.kind = "Ok"
                                THEN typed_stat(@, tid, "published") ELSE @]
                /\ worker' = call_returns(worker, t,
                      [op |-> "publish", kind |-> r.kind, event |-> 0, given |-> event,
                       before |-> tb.channels[tid], after |-> r.ch])
    /\ UNCHANGED <<fchan, notChannel>>

\* The queue has changed so that the sleeping call can complete
ch_unpark(t) ==
    /\ worker.tasks[t].pc = "parked"
    /\ LET op == worker.tasks[t].op
           ev == worker.tasks[t].event
           tid == TypeId_of("TradeV2")
       IN  CASE op = "send" ->
                  LET r == FastChannel_send(fchan, ev) IN
                  /\ r.kind # "Full"
                  /\ fchan' = r.ch
                  /\ worker' = call_returns(worker, t,
                        [op |-> op, kind |-> r.kind, event |-> 0, given |-> ev,
                         before |-> fchan, after |-> r.ch])
                  /\ UNCHANGED tbus
             [] op = "recv" ->
                  LET r == Receiver_take(fchan) IN
                  /\ r.kind # "Empty"
                  /\ fchan' = r.ch
                  /\ worker' = call_returns(worker, t,
                        [op |-> op, kind |-> r.kind,
                         event |-> IF r.kind = "Ok" THEN r.event ELSE 0, given |-> 0,
                         before |-> fchan, after |-> r.ch])
                  /\ UNCHANGED tbus
             [] OTHER ->
                  LET r == FastChannel_send(tbus.channels[tid], ev) IN
                  /\ r.kind # "Full"
                  /\ tbus' = [tbus EXCEPT
                        !.channels[tid] = r.ch,
                        !.stats = IF r.kind = "Ok"
                                  THEN typed_stat(@, tid, "published") ELSE @]
                  /\ worker' = call_returns(worker, t,
                        [op |-> op, kind |-> r.kind, event |-> 0, given |-> ev,
                         before |-> tbus.channels[tid], after |-> r.ch])
                  /\ UNCHANGED fchan
    /\ UNCHANGED notChannel

\* Another thread takes a message with try_recv on its clone of the receiver
other_thread_takes ==
    /\ fchan.queue # << >>
    /\ fchan' = FastChannel_try_recv(fchan).ch
    /\ worker' = [worker EXCEPT !.received = @ + 1]
    /\ UNCHANGED <<tbus, notChannel>>

\* Another thread puts a message with try_send on its clone of the sender
other_thread_puts(event) ==
    /\ worker.ops < MaxChanOps
    /\ Len(fchan.queue) < fchan.cap
    /\ fchan' = FastChannel_try_send(fchan, event).ch
    /\ worker' = [worker EXCEPT !.ops = @ + 1, !.sent = @ + 1]
    /\ UNCHANGED <<tbus, notChannel>>

\* Another thread takes a message from the typed bus's queue
other_thread_takes_typed ==
    /\ HasKey(tbus.channels, TypeId_of("TradeV2"))
    /\ tbus.channels[TypeId_of("TradeV2")].queue # << >>
    /\ tbus' = [tbus EXCEPT !.channels[TypeId_of("TradeV2")] = Receiver_take(@).ch]
    /\ UNCHANGED <<fchan, worker, notChannel>>

NextChannel ==
    \/ \E t \in Tasks : worker_poll(t)
    \/ \E t \in Tasks : worker_yield(t)
    \/ \E t \in Tasks : ch_try_send(t, worker.ops + 1)
    \/ \E t \in Tasks : ch_try_recv(t)
    \/ \E t \in Tasks : ch_send(t, worker.ops + 1)
    \/ \E t \in Tasks : ch_recv(t)
    \/ \E t \in Tasks : ch_publish(t, "TradeV2", TypedEvent("TradeV2", worker.ops + 1))
    \/ \E t \in Tasks : ch_unpark(t)
    \/ other_thread_takes
    \/ other_thread_puts(worker.ops + 1)
    \/ other_thread_takes_typed

SpecChannel == InitChannel /\ [][NextChannel]_vars

\* C22: a try_send that finds the bounded queue holding capacity messages
\* returns Full with the event it was given and leaves the queue as it was;
\* a try_recv that finds the queue empty returns Empty and leaves the channel
\* as it was; and a task is never left sleeping inside either call.
C22_TryVariants ==
    \A t \in Tasks :
       LET ret == worker.tasks[t].ret IN
       /\ (ret.op = "try_send" /\ Len(ret.before.queue) >= ret.before.cap) =>
             /\ ret.kind = "Full"
             /\ ret.event = ret.given
             /\ ret.after = ret.before
             /\ FastChannel_len(ret.after) = FastChannel_len(ret.before)
       /\ (ret.op = "try_recv" /\ ret.before.queue = << >>) =>
             /\ ret.kind = "Empty"
             /\ ret.after = ret.before
       /\ worker.tasks[t].pc = "parked" => worker.tasks[t].op \notin {"try_send", "try_recv"}

\* One task got Full from try_send on a full queue and the other got Empty
\* from try_recv once the queue had been drained.
C22_Witness ==
    \E t, u \in Tasks :
       /\ worker.tasks[t].ret.op = "try_send"
       /\ worker.tasks[t].ret.kind = "Full"
       /\ Len(worker.tasks[t].ret.before.queue) = worker.tasks[t].ret.before.cap
       /\ worker.tasks[u].ret.op = "try_recv"
       /\ worker.tasks[u].ret.kind = "Empty"

\* A task scheduled on the worker thread that is not itself asleep in a call
\* can be run: the thread is free or already running it.
CanRun(u) == worker.tasks[u].pc # "parked" /\ worker.running \in {"none", u}

\* C23: while a task is suspended in send or publish on a full queue, or in
\* recv on an empty one, the other tasks of the same worker thread can still
\* take steps.
C23_SuspensionYields ==
    \A t \in Tasks :
       worker.tasks[t].pc = "parked" =>
          \A u \in Tasks \ {t} : worker.tasks[u].pc # "parked" => CanRun(u)


-----------------------------------------------------------------------------
(* SpecPacing: run() at every speed over lists with gaps around the threshold *)

Gaps == {g \in {k * SLEEP_THRESHOLD_NS + d : k \in 0..MaxGapUnits, d \in -1..MaxGapSlack} :
            g >= 0}

Speeds == {SpeedMax, SpeedRealtime}
          \cup {SpeedMultiplier(n, d) : n \in 1..MaxMult, d \in 1..MaxMult}

\* The timestamp of the k-th envelope of a list given by its gaps
RECURSIVE stamp_at(_, _)
stamp_at(gaps, k) == IF k = 0 THEN 0 ELSE stamp_at(gaps, k - 1) + gaps[k]

InitPacing ==
    /\ COUNTER = 1
    /\ bus = EventBus_new(NoRecorder)
    /\ pubs = [p \in Tasks |-> IdlePublisher]
    /\ listeners = [l \in Listeners |-> NoListener]
    /\ calls = [started |-> 0, done |-> << >>, max |-> MaxCalls]
    /\ \E speed \in Speeds : replay = [EventReplay_new EXCEPT !.speed = speed]
    /\ IdleRecorder /\ IdleTyped /\ IdleAlone

\* The caller loads n envelopes whose timestamps lie the given gaps apart
pacing_load_events(n, gaps) ==
    /\ replay.pc = "new"
    /\ LET events == [k \in 1..n |->
                        make_envelope(COUNTER + k - 1, stamp_at(gaps, k),
                                      "MarketDataEvent", k)]
       IN  replay' = [load_events(replay, events) EXCEPT !.pc = "loaded",
                                                         !.input = events]
    /\ COUNTER' = COUNTER + n
    /\ UNCHANGED <<bus, notReplay>>

NextPacing ==
    \/ \E n \in 0..MaxPaced : \E gaps \in [1..n -> Gaps] : pacing_load_events(n, gaps)
    \/ run
    \/ run_advance
    \/ run_sleep
    \/ run_publish
    \/ run_entry
    \/ run_send
    \/ run_stat
    \/ run_finish

SpecPacing == InitPacing /\ [][NextPacing]_vars

\* The delta between the i-th envelope of the batch and the one before it,
\* divided by the multiplier of the run's speed and cut to an integer
PacedQuotient(i) ==
    LET m == IF replay.speed.kind = "Multiplier"
             THEN replay.speed.num ELSE 1
        d == IF replay.speed.kind = "Multiplier"
             THEN replay.speed.den ELSE 1
    IN  ((replay.batch[i].timestamp_ns - replay.batch[i - 1].timestamp_ns) * d) \div m

\* C24: before publishing the i-th event of the batch (i > 0, counted from
\* 0) a run at Realtime or Multiplier(m) waits the delta to the event before
\* it divided by m, in whole nanoseconds, exactly when that is more than
\* 1,000,000; it does not wait before the first event, for a zero delta, for
\* a delay of 1,000,000 ns or less, or at Max speed.
C24_PacingThreshold ==
    \A i \in 1..Len(replay.slept) :
       LET waits == replay.slept[i] > 0 IN
       /\ waits <=> /\ replay.speed.kind \in {"Realtime", "Multiplier"}
                    /\ i > 1
                    /\ PacedQuotient(i) > 1000000
       /\ waits => replay.slept[i] = PacedQuotient(i)
       /\ i = 1 => ~waits
       /\ replay.speed.kind = "Max" => ~waits
       /\ (i > 1 /\ replay.batch[i].timestamp_ns = replay.batch[i - 1].timestamp_ns) => ~waits
       /\ (i > 1 /\ PacedQuotient(i) <= 1000000) => ~waits

\* A run at Multiplier(2) has gone past a gap of 2,000,001 ns without a wait
\* (the delay is 1,000,000) and has waited 1,000,001 ns for a gap of
\* 2,000,002 ns.
C24_Witness ==
    /\ replay.speed = SpeedMultiplier(2, 1)
    /\ Len(replay.slept) = 3
    /\ replay.batch[2].timestamp_ns - replay.batch[1].timestamp_ns = 2000001
    /\ replay.slept[2] = 0
    /\ replay.batch[3].timestamp_ns - replay.batch[2].timestamp_ns = 2000002
    /\ replay.slept[3] = 1000001


-----------------------------------------------------------------------------
(* The typed registry *)

\* C25: whatever the interleaving of publish::<E> and subscribe::<E> over the
\* types, the entry stored under the type identity of E is a channel of
\* element type E, so the checked downcast never fails and the 'Type mismatch
\* in channel registry' abort is never reached; and no type identity ever
\* gets a second channel.
C25_RegistryTyped ==
    /\ ~tbus.panicked
    /\ \A E \in TypedTypes :
          HasKey(tbus.channels, TypeId_of(E)) => tbus.channels[TypeId_of(E)].elem = E
    /\ DOMAIN tbus.channels \subseteq {TypeId_of(E) : E \in TypedTypes}
    /\ tbus.made = Cardinality(DOMAIN tbus.channels)

\* Both types have been published and subscribed, the channel of one created
\* by a publish and of the other by a subscribe, and both hold messages.
C25_Witness ==
    /\ \A E \in TypedTypes :
          /\ HasKey(tbus.channels, TypeId_of(E))
          /\ tbus.channels[TypeId_of(E)].queue # << >>
          /\ \E h \in Handles : handles[h].type = E
    /\ tbus.made = 2
    /\ tcalls = MaxTypedCalls


-----------------------------------------------------------------------------
(* SpecMaxRun: one run() at Max speed, with a runtime that keeps polling it *)

NextMaxRun ==
    \/ \E f \in OneType : replay_load_events(Len(f), f)
    \/ run
    \/ run_advance
    \/ run_publish
    \/ run_entry
    \/ run_send
    \/ run_stat
    \/ run_finish
    \/ subscribe(1, event_type("MarketDataEvent"))
    \/ subscribe_attach(1)
    \/ recv(1)
    \/ drop_receiver(1)

\* The steps of the task that is inside run()
RunSteps ==
    run_advance \/ run_publish \/ run_entry \/ run_send \/ run_stat \/ run_finish

\* run() awaits nothing at Max speed but the publish, which never waits for
\* a subscriber: a runtime that keeps polling the task lets it step.
SpecMaxRun == InitReplay /\ [][NextMaxRun]_vars /\ WF_vars(RunSteps)

\* The publishes the bus has counted for the replayed type name
PublishesCounted ==
    get_stats(bus, event_type("MarketDataEvent")).published
    + get_stats(bus, event_type("MarketDataEvent")).dropped

-----------------------------------------------------------------------------
(* SpecClone: a TypedEventBus, its clones, and the Arcs they hold *)

\* tclones.maps and tclones.statmaps are the DashMaps behind the Arcs, a bus
\* value holds the index of one of each; a handle reads the queue stored in
\* one map under one type identity.

\* TypedEventBus::new(): a new Arc<DashMap> for channels and one for stats
TypedEventBus_new(tc) ==
    [tc EXCEPT !.maps = Append(@, << >>),
               !.statmaps = Append(@, << >>),
               !.buses = Append(@, [channels |-> Len(tc.maps) + 1,
                                    stats |-> Len(tc.statmaps) + 1])]

\* A clone that builds maps of its own with the contents of the original's
TypedEventBus_clone_copying(tc, b) ==
    [tc EXCEPT !.maps = Append(@, tc.maps[tc.buses[b].channels]),
               !.statmaps = Append(@, tc.statmaps[tc.buses[b].stats]),
               !.buses = Append(@, [channels |-> Len(tc.maps) + 1,
                                    stats |-> Len(tc.statmaps) + 1])]

\* impl Clone: channels: self.channels.clone(), stats: self.stats.clone(),
\* both Arc clones, that is, the same maps
TypedEventBus_clone(tc, b) ==
    [tc EXCEPT !.buses = Append(@, [channels |-> tc.buses[b].channels,
                                    stats |-> tc.buses[b].stats])]

\* The registry a bus value sees through its two Arcs
registry_of(tc, b) ==
    [channels |-> tc.maps[tc.buses[b].channels],
     stats |-> tc.statmaps[tc.buses[b].stats],
     panicked |-> FALSE, last |-> NoResult, made |-> 0]

\* The registry written back through the two Arcs of the bus value
registry_put(tc, b, tb) ==
    [tc EXCEPT !.maps[tc.buses[b].channels] = tb.channels,
               !.statmaps[tc.buses[b].stats] = tb.stats]

\* TypedEventBus::stats::<E>() called on a bus value
typed_stats(tc, b, E) ==
    LET stats == tc.statmaps[tc.buses[b].stats] IN
    IF HasKey(stats, TypeId_of(E)) THEN stats[TypeId_of(E)]
    ELSE TypedEventStats_default

CloneHandle == [pc |-> "none", type |-> "none", map |-> 0, via |-> 0, got |-> << >>]

notClone == <<COUNTER, bus, pubs, listeners, calls, recorder, recCalls, recTasks, tbus,
              handles, tcalls, replay, creations, fchan, worker>>

InitClone ==
    /\ tclones = [TypedEventBus_new(NoClones) EXCEPT
                     !.handles = [h \in Handles |-> CloneHandle]]
    /\ IdleBus /\ IdleRecorder /\ IdleTyped /\ IdleReplay
    /\ creations = NoCreations /\ fchan = NoChannel /\ worker = NoWorker

\* let bus2 = bus.clone()
clone_bus(b) ==
    /\ b <= Len(tclones.buses)
    /\ Len(tclones.buses) <= MaxClones
    /\ tclones' = TypedEventBus_clone(tclones, b)
    /\ UNCHANGED notClone

\* The bus value through which a type's channel is first created
first_through(tc, b, E) ==
    IF HasKey(tc.first, E) THEN tc.first
    ELSE [k \in DOMAIN tc.first \cup {E} |-> IF k = E THEN b ELSE tc.first[k]]

\* b.publish(event) on bus value b
clone_publish(b, E) ==
    /\ b <= Len(tclones.buses)
    /\ Len(tclones.sent) < MaxCloneCalls
    /\ LET tid == TypeId_of(E)
           tb  == get_or_create_channel(registry_of(tclones, b), E)
           r   == FastChannel_send(tb.channels[tid],
                                   TypedEvent(E, Len(tclones.sent) + 1))
       IN  /\ r.kind # "Full"
           /\ tclones' =
                [registry_put(tclones, b,
                    [tb EXCEPT !.channels[tid] = r.ch,
                               !.stats = IF r.kind = "Ok"
                                         THEN typed_stat(@, tid, "published") ELSE @])
                 EXCEPT !.sent = Append(@, [type |-> E, via |-> b, kind |-> r.kind]),
                        !.first = first_through(tclones, b, E)]
    /\ UNCHANGED notClone

\* let rx = b.subscribe::<E>() on bus value b
clone_subscribe(h, b, E) ==
    /\ b <= Len(tclones.buses)
    /\ tclones.handles[h].pc = "none"
    /\ LET tid == TypeId_of(E)
           tb  == get_or_create_channel(registry_of(tclones, b), E)
       IN  tclones' =
             [registry_put(tclones, b,
                 [tb EXCEPT !.stats = typed_stat(@, tid, "subscribers"),
                            !.channels[tid] = FastChannel_receiver(@)])
              EXCEPT !.handles[h] = [pc |-> "live", type |-> E,
                                     map |-> tclones.buses[b].channels,
                                     via |-> b, got |-> << >>],
                     !.first = first_through(tclones, b, E)]
    /\ UNCHANGED notClone

\* rx.recv() on a handle
clone_recv(h) ==
    /\ tclones.handles[h].pc = "live"
    /\ LET m   == tclones.handles[h].map
           tid == TypeId_of(tclones.handles[h].type)
           r   == Receiver_take(tclones.maps[m][tid])
       IN  /\ r.kind = "Ok"
           /\ tclones' = [tclones EXCEPT !.maps[m][tid] = r.ch,
                                         !.handles[h].got = Append(@, r.event)]
    /\ UNCHANGED notClone

NextClone ==
    \/ \E b \in 1..MaxClones + 1 : clone_bus(b)
    \/ \E b \in 1..MaxClones + 1, E \in TypedTypes : clone_publish(b, E)
    \/ \E h \in Handles, b \in 1..MaxClones + 1, E \in TypedTypes :
          clone_subscribe(h, b, E)
    \/ \E h \in Handles : clone_recv(h)

SpecClone == InitClone /\ [][NextClone]_vars

\* The message with this id waits in the queue that handle h reads
WaitsFor(h, id) ==
    LET m   == tclones.handles[h].map
        tid == TypeId_of(tclones.handles[h].type)
    IN  \E i \in 1..Len(tclones.maps[m][tid].queue) :
           tclones.maps[m][tid].queue[i].id = id

\* The message with this id has been handed to some handle
Taken(id) ==
    \E h \in Handles : \E i \in 1..Len(tclones.handles[h].got) :
       tclones.handles[h].got[i].id = id

\* C27: the original and its clones share one registry. A message published
\* through any of them is, for every handle obtained by subscribe::<E>() on
\* any of them, either waiting in the queue that handle reads or already
\* taken by a handle, whichever value the channel of E was first created
\* through; and stats::<E>() gives the same answer on all of them, counting
\* the publishes and subscribes made through any.
C27_ClonesShareRegistry ==
    /\ \A id \in 1..Len(tclones.sent) : \A h \in Handles :
          (tclones.handles[h].pc = "live"
             /\ tclones.handles[h].type = tclones.sent[id].type
             /\ tclones.sent[id].kind = "Ok")
          => (WaitsFor(h, id) \/ Taken(id))
    /\ \A b \in 1..Len(tclones.buses), E \in TypedTypes :
          /\ typed_stats(tclones, b, E) = typed_stats(tclones, 1, E)
          /\ typed_stats(tclones, b, E).published =
                Cardinality({id \in 1..Len(tclones.sent) :
                    tclones.sent[id].type = E /\ tclones.sent[id].kind = "Ok"})
          /\ typed_stats(tclones, b, E).subscribers =
                Cardinality({h \in Handles : tclones.handles[h].type = E})

\* A handle subscribed on the original has received a message published on
\* a clone, the channel having been first created through the clone; and a
\* handle subscribed on a clone has received one published on the original.
C27_Witness ==
    /\ \E h \in Handles : \E i \in 1..Len(tclones.handles[h].got) :
          LET id == tclones.handles[h].got[i].id IN
          /\ tclones.handles[h].via = 1
          /\ tclones.sent[id].via > 1
          /\ tclones.first[tclones.handles[h].type] > 1
    /\ \E h \in Handles : \E i \in 1..Len(tclones.handles[h].got) :
          LET id == tclones.handles[h].got[i].id IN
          /\ tclones.handles[h].via > 1
          /\ tclones.sent[id].via = 1


-----------------------------------------------------------------------------
(* Recording on the dynamic bus *)

-----------------------------------------------------------------------------
(* The recorder's cursor and its range query *)

\* C29: for capacity C >= 1 the cursor is n mod C in every state, n being
\* the record calls since construction or the last clear, so it moves during
\* the growth phase too and is 0 when the buffer first becomes full; clear
\* leaves the recorder as EventRecorder::new of the same capacity makes it.
C29_CursorModCapacity ==
    /\ [](recorder.capacity >= 1 =>
            /\ recorder.position = recCalls.since % recorder.capacity
            /\ recCalls.since = recorder.capacity =>
                  /\ recorder.position = 0
                  /\ Len(recorder.events) = recorder.capacity)
    /\ [][rec_clear =>
             /\ recorder'.events = << >>
             /\ recorder'.position = 0
             /\ recorder' = EventRecorder_new(recorder.capacity)]_vars

\* A recorder of capacity 3 that was cleared after some records has just
\* become full again: three records since the clear, cursor 0.
C29_Witness ==
    /\ recorder.capacity = 3
    /\ recCalls.since = 3 /\ recCalls.total > recCalls.since
    /\ Len(recorder.events) = 3
    /\ recorder.position = 0

\* The slots of the buffer whose envelope is stamped within [start_ns, end_ns]
SlotsInRange(start_ns, end_ns) ==
    {k \in 1..Len(recorder.events) :
        /\ start_ns <= recorder.events[k].timestamp_ns
        /\ recorder.events[k].timestamp_ns <= end_ns}

\* C30: get_events_in_range(start, end) returns exactly the envelopes of the
\* buffer with start <= timestamp_ns <= end, both bounds included, in slot
\* order; nothing when start > end; and leaves buffer and cursor as they are.
C30_RangeQuery ==
    /\ [](recCalls.range.asked =>
            LET out   == recCalls.range.out
                slots == SlotsInRange(recCalls.range.start_ns, recCalls.range.end_ns)
            IN  /\ Len(out) = Cardinality(slots)
                /\ \A j \in 1..Len(out) : out[j] = recorder.events[Kth(slots, j)]
                /\ recCalls.range.start_ns > recCalls.range.end_ns => out = << >>)
    /\ [][\A start_ns, end_ns \in 0..MaxStamp + 1 :
             rec_get_events_in_range(start_ns, end_ns) => recorder' = recorder]_vars

\* A query over a buffer that has wrapped (slot order is not insertion
\* order) returned two envelopes, one stamped start and one stamped end,
\* and left a third one out.
C30_Witness ==
    /\ recCalls.range.asked
    /\ recCalls.since > recorder.capacity
    /\ Len(recCalls.range.out) = 2
    /\ Len(recorder.events) = 3
    /\ recCalls.range.start_ns < recCalls.range.end_ns
    /\ recCalls.range.out[1].timestamp_ns = recCalls.range.end_ns
    /\ recCalls.range.out[2].timestamp_ns = recCalls.range.start_ns
    /\ recCalls.range.out[1].id > recCalls.range.out[2].id


-----------------------------------------------------------------------------
(* The virtual clock of a replay *)

\* The smallest and the largest timestamp of a non-empty list
MinStampOf(events) ==
    CHOOSE m \in {events[k].timestamp_ns : k \in DOMAIN events} :
        \A k \in DOMAIN events : m <= events[k].timestamp_ns
MaxStampOf(events) ==
    CHOOSE m \in {events[k].timestamp_ns : k \in DOMAIN events} :
        \A k \in DOMAIN events : m >= events[k].timestamp_ns

\* The loop of run is at its i-th envelope, past the clock's advance
Publishing == replay.pc \in {"sleep", "publish", "entry", "send", "stat"}

\* C31: after load_events of a non-empty list the clock has start = the
\* smallest loaded timestamp, end = the largest and current = start; while
\* run() publishes an envelope, current is that envelope's timestamp and
\* lies within [start, end]; from one envelope of a run to the next current
\* never decreases; and when a run() over the batch has returned,
\* current = end.
C31_ClockFollowsReplay ==
    /\ [](replay.pc = "loaded" /\ replay.input # << >> =>
            /\ replay.clock.start_ns = MinStampOf(replay.input)
            /\ replay.clock.end_ns = MaxStampOf(replay.input)
            /\ replay.clock.current_ns = replay.clock.start_ns)
    /\ [](Publishing =>
            /\ replay.clock.current_ns = replay.taken[replay.i].timestamp_ns
            /\ replay.clock.start_ns <= replay.clock.current_ns
            /\ replay.clock.current_ns <= replay.clock.end_ns)
    /\ [][(replay.pc = "advance" /\ (replay.i > 1 \/ replay.ncalls = 1)) \/ Publishing
             => replay'.clock.current_ns >= replay.clock.current_ns]_vars
    /\ [](replay.pc = "done" /\ ~replay.until /\ replay.input # << >> =>
            replay.clock.current_ns = replay.clock.end_ns)

\* A run() made after a run_until on the same batch has returned with the
\* clock at the end of a span of more than one timestamp.
C31_Witness ==
    /\ replay.pc = "done" /\ ~replay.until
    /\ replay.ncalls = 2
    /\ Len(replay.input) = 3
    /\ replay.clock.start_ns < replay.clock.end_ns
    /\ replay.clock.current_ns = replay.clock.end_ns
    /\ replay.input[1].timestamp_ns > replay.input[2].timestamp_ns

-----------------------------------------------------------------------------
(* SpecClock: a VirtualClock called directly through its public methods *)

ClockTimes == 0..MaxClockNs

InitClock ==
    /\ replay = [pc |-> "clock", clock |-> VirtualClock_new, ops |-> 0,
                 asked |-> FALSE, progress |-> [num |-> 0, den |-> 1]]
    /\ IdleBus /\ IdleRecorder /\ IdleTyped /\ IdleAlone

\* clock.set_bounds(start_ns, end_ns)
clock_set_bounds(start_ns, end_ns) ==
    /\ replay.pc = "clock" /\ replay.ops < MaxClockOps
    /\ replay' = [replay EXCEPT !.clock = set_bounds(@, start_ns, end_ns),
                                !.ops = @ + 1, !.asked = FALSE]
    /\ UNCHANGED <<COUNTER, bus, notReplay>>

\* clock.advance_to(timestamp_ns)
clock_advance_to(timestamp_ns) ==
    /\ replay.pc = "clock" /\ replay.ops < MaxClockOps
    /\ replay' = [replay EXCEPT !.clock = advance_to(@, timestamp_ns),
                                !.ops = @ + 1, !.asked = FALSE]
    /\ UNCHANGED <<COUNTER, bus, notReplay>>

\* clock.progress()
clock_progress ==
    /\ replay.pc = "clock" /\ ~replay.asked
    /\ replay' = [replay EXCEPT !.asked = TRUE, !.progress = progress(replay.clock)]
    /\ UNCHANGED <<COUNTER, bus, notReplay>>

NextClock ==
    \/ \E start_ns, end_ns \in ClockTimes : clock_set_bounds(start_ns, end_ns)
    \/ \E timestamp_ns \in ClockTimes : clock_advance_to(timestamp_ns)
    \/ clock_progress

SpecClock == InitClock /\ [][NextClock]_vars

\* C32: after any sequence of set_bounds and advance_to calls progress()
\* returns a fraction in [0, 1]: 1 whenever end <= start, and otherwise 0
\* when current = start and 1 when current = end.
C32_ProgressInUnitInterval ==
    replay.asked =>
       LET f == replay.progress
           c == replay.clock
       IN  /\ 0 <= f.num /\ f.num <= f.den
           /\ c.end_ns <= c.start_ns => f.num = f.den
           /\ (c.end_ns > c.start_ns /\ c.current_ns = c.start_ns) => f.num = 0
           /\ (c.end_ns > c.start_ns /\ c.current_ns = c.end_ns) => f.num = f.den

-----------------------------------------------------------------------------
(* SpecProgress: run() with the per-event and the progress callback *)

\* replay.on_event(callback), before the run
replay_on_event ==
    /\ replay.pc \in {"new", "loaded"} /\ ~replay.on_event
    /\ replay' = on_event(replay)
    /\ UNCHANGED <<COUNTER, bus, notReplay>>

\* replay.on_progress(interval, callback), before the run; the intervals
\* are 1 and more, interval 0 makes i % self.progress_interval panic
replay_on_progress(interval) ==
    /\ replay.pc \in {"new", "loaded"} /\ ~replay.on_progress
    /\ replay' = on_progress(replay, interval)
    /\ UNCHANGED <<COUNTER, bus, notReplay>>

NextProgress ==
    \/ \E f \in OneType : replay_load_events(Len(f), f)
    \/ replay_on_event
    \/ \E interval \in 1..MaxInterval : replay_on_progress(interval)
    \/ run
    \/ run_advance
    \/ run_publish
    \/ run_entry
    \/ run_send
    \/ run_stat
    \/ run_finish

SpecProgress == InitReplay /\ [][NextProgress]_vars

\* The calls the progress callback received during the run
ProgressCalls == SelectSeq(replay.log, LAMBDA c : c.cb = "on_progress")

\* C33: a run() of T events with progress interval N >= 1 and a progress
\* callback installed invokes the progress callback exactly floor(T / N)
\* times, each time after the publish and the per-event callback of the
\* event that triggers it.
C33_ProgressCadence ==
    /\ (replay.pc = "done" /\ replay.on_progress) =>
          Len(ProgressCalls) = Len(replay.batch) \div replay.progress_interval
    /\ \A k \in 1..Len(replay.log) :
          replay.log[k].cb = "on_progress" =>
             /\ replay.log[k].i + 1 <= Len(replay.played)
             /\ replay.on_event =>
                   /\ k > 1
                   /\ replay.log[k - 1].cb = "on_event"
                   /\ replay.log[k - 1].i = replay.log[k].i

-----------------------------------------------------------------------------
(* SpecTypedCalls: threads inside publish and subscribe of one TypedEventBus *)

IdleTypedCall == [pc |-> "idle", op |-> "none", type |-> "none", event |-> 0,
                  kind |-> "none"]

InitTypedCalls ==
    /\ tbus = [channels |-> << >>, stats |-> << >>, panicked |-> FALSE,
               last |-> NoResult, made |-> 0]
    /\ handles = [h \in Handles |-> NoHandle]
    /\ tcalls = [tasks |-> [t \in Tasks |-> IdleTypedCall],
                 returned |-> [E \in TypedTypes |-> 0],
                 subscribed |-> [E \in TypedTypes |-> 0],
                 sentlog |-> [E \in TypedTypes |-> << >>],
                 taken |-> [E \in TypedTypes |-> << >>],
                 n |-> 0]
    /\ IdleBus /\ IdleRecorder /\ IdleReplay /\ IdleAlone

\* A thread enters bus.publish::<E>(event) or bus.subscribe::<E>()
tb_call(t, op, E) ==
    /\ tcalls.tasks[t].pc = "idle"
    /\ tcalls.n < MaxStatCalls
    /\ tcalls' = [tcalls EXCEPT
          !.n = @ + 1,
          !.tasks[t] = [pc |-> "channel", op |-> op, type |-> E,
                        event |-> TypedEvent(E, tcalls.n + 1), kind |-> "none"]]
    /\ UNCHANGED <<tbus, handles, notTyped>>

\* self.get_or_create_channel::<E>() (typed_bus.rs lines 64 and 82)
tb_channel(t) ==
    /\ tcalls.tasks[t].pc = "channel"
    /\ tbus' = get_or_create_channel(tbus, tcalls.tasks[t].type)
    /\ tcalls' = [tcalls EXCEPT !.tasks[t].pc =
                    IF tcalls.tasks[t].op = "publish" THEN "send" ELSE "stat"]
    /\ UNCHANGED <<handles, notTyped>>

\* channel.send(event) (line 67): waits while the queue is full. sentlog
\* keeps, per type, every send that completed with its result and the number
\* of handles subscribe had returned by then.
tb_send(t) ==
    /\ tcalls.tasks[t].pc = "send"
    /\ LET E   == tcalls.tasks[t].type
           tid == TypeId_of(E)
           r   == FastChannel_send(tbus.channels[tid], tcalls.tasks[t].event)
       IN  /\ r.kind # "Full"
           /\ tbus' = [tbus EXCEPT !.channels[tid] = r.ch]
           /\ tcalls' = [tcalls EXCEPT
                 !.sentlog[E] = Append(@, [event |-> tcalls.tasks[t].event,
                                           kind |-> r.kind,
                                           handles |-> tcalls.subscribed[E]]),
                 !.tasks[t].kind = r.kind,
                 !.tasks[t].pc = IF r.kind = "Ok" THEN "stat" ELSE "return"]
    /\ UNCHANGED <<handles, notTyped>>

\* self.stats.entry(type_id).or_insert_with(..).published += 1 (lines 70-74)
\* or .subscribers += 1 (lines 85-87): one step under the map's entry guard
tb_stat(t) ==
    /\ tcalls.tasks[t].pc = "stat"
    /\ tbus' = [tbus EXCEPT !.stats =
                  typed_stat(@, TypeId_of(tcalls.tasks[t].type),
                             IF tcalls.tasks[t].op = "publish"
                             THEN "published" ELSE "subscribers")]
    /\ tcalls' = [tcalls EXCEPT !.tasks[t].pc = "return"]
    /\ UNCHANGED <<handles, notTyped>>

\* The call returns: publish its result, subscribe channel.receiver()
tb_return(t) ==
    /\ tcalls.tasks[t].pc = "return"
    /\ LET c   == tcalls.tasks[t]
           tid == TypeId_of(c.type)
       IN  /\ tbus' = IF c.op = "subscribe"
                      THEN [tbus EXCEPT !.channels[tid] = FastChannel_receiver(@)]
                      ELSE tbus
           /\ tcalls' = [tcalls EXCEPT
                 !.tasks[t] = IdleTypedCall,
                 !.returned[c.type] = IF c.op = "publish" /\ c.kind = "Ok"
                                      THEN @ + 1 ELSE @,
                 !.subscribed[c.type] = IF c.op = "subscribe" THEN @ + 1 ELSE @]
    /\ UNCHANGED <<handles, notTyped>>

\* A thread that holds a receiver returned by subscribe::<E>() takes a message
tb_take(E) ==
    /\ tcalls.subscribed[E] > 0
    /\ LET r == Receiver_take(tbus.channels[TypeId_of(E)]) IN
         /\ r.kind = "Ok"
         /\ tbus' = [tbus EXCEPT !.channels[TypeId_of(E)] = r.ch]
         /\ tcalls' = [tcalls EXCEPT !.taken[E] = Append(@, r.event)]
    /\ UNCHANGED <<handles, notTyped>>

NextTypedCalls ==
    \/ \E t \in Tasks, E \in TypedTypes : tb_call(t, "publish", E)
    \/ \E t \in Tasks, E \in TypedTypes : tb_call(t, "subscribe", E)
    \/ \E t \in Tasks : tb_channel(t)
    \/ \E t \in Tasks : tb_send(t)
    \/ \E t \in Tasks : tb_stat(t)
    \/ \E t \in Tasks : tb_return(t)
    \/ \E E \in TypedTypes : tb_take(E)

SpecTypedCalls == InitTypedCalls /\ [][NextTypedCalls]_vars

\* The calls of one kind on type E that have updated the statistics and
\* have not returned yet
Returning(op, E) ==
    {t \in Tasks : /\ tcalls.tasks[t].pc = "return"
                   /\ tcalls.tasks[t].op = op
                   /\ tcalls.tasks[t].type = E
                   /\ (op = "publish" => tcalls.tasks[t].kind = "Ok")}

\* The counters of type E as stats::<E>() reads them (None read as zeros)
StatsOf(E) ==
    IF HasKey(tbus.stats, TypeId_of(E)) THEN tbus.stats[TypeId_of(E)]
    ELSE TypedEventStats_default

\* C34: under any interleaving of concurrent publish and subscribe calls,
\* the published counter of each type E is the number of publish<E> calls
\* that succeeded (those returned, and those that have counted themselves
\* and are about to return), the subscribers counter is the number of
\* subscribe<E>() calls likewise, and total_published is the sum of the
\* published counters; with no call in progress the counters equal the
\* numbers of returned calls.
C34_TypedStatistics ==
    /\ \A E \in TypedTypes :
          /\ StatsOf(E).published =
                tcalls.returned[E] + Cardinality(Returning("publish", E))
          /\ StatsOf(E).subscribers =
                tcalls.subscribed[E] + Cardinality(Returning("subscribe", E))
    /\ total_published(tbus) =
          StatsOf("TradeV2").published + StatsOf("QuoteV2").published
    /\ (\A t \in Tasks : tcalls.tasks[t].pc = "idle") =>
          /\ \A E \in TypedTypes :
                /\ StatsOf(E).published = tcalls.returned[E]
                /\ StatsOf(E).subscribers = tcalls.subscribed[E]
          /\ total_published(tbus) =
                tcalls.returned["TradeV2"] + tcalls.returned["QuoteV2"]

\* No call is in progress after publishes of both types and a subscribe
\* have returned, two of them publishes of one type.
C34_Witness ==
    /\ \A t \in Tasks : tcalls.tasks[t].pc = "idle"
    /\ tcalls.returned["TradeV2"] = 2
    /\ tcalls.returned["QuoteV2"] = 1
    /\ tcalls.subscribed["TradeV2"] = 1
    /\ total_published(tbus) = 3

-----------------------------------------------------------------------------
(* Backpressure of the bounded channel *)

\* The task sleeps inside a blocking send on the stand-alone channel
AsleepInSend(t) == worker.tasks[t].pc = "parked" /\ worker.tasks[t].op = "send"

\* C35: a blocking send on a bounded channel that holds capacity messages
\* does not complete while the queue stays full, and when it completes,
\* after a receive has made room, its message is at the tail; in every
\* state the queue holds at most capacity messages, len() is the number of
\* messages sent minus the number received, and is_empty() holds exactly
\* when len() is 0.
C35_Backpressure ==
    /\ [](/\ Len(fchan.queue) <= fchan.cap
          /\ FastChannel_len(fchan) = worker.sent - worker.received
          /\ FastChannel_is_empty(fchan) <=> FastChannel_len(fchan) = 0
          /\ \A t \in Tasks :
                LET ret == worker.tasks[t].ret IN
                (ret.op = "send" /\ ret.kind = "Ok") =>
                   /\ Len(ret.before.queue) < ret.before.cap
                   /\ ret.after.queue = Append(ret.before.queue, ret.given))
    /\ [][\A t \in Tasks :
             /\ (AsleepInSend(t) /\ Len(fchan.queue) = fchan.cap) => AsleepInSend(t)'
             /\ (AsleepInSend(t) /\ ~AsleepInSend(t)') =>
                   /\ Len(fchan.queue) < fchan.cap
                   /\ fchan'.queue = Append(fchan.queue, worker.tasks[t].event)
             /\ (worker.tasks[t].pc = "idle" /\ worker'.tasks[t].pc = "parked"
                   /\ worker'.tasks[t].op = "send") =>
                   Len(fchan.queue) = fchan.cap]_vars

\* A send that slept on a full queue of capacity 2 has completed after a
\* receive made room: its message is the last of the two queued.
C35_Witness ==
    \E t \in Tasks :
       LET ret == worker.tasks[t].ret IN
       /\ ret.op = "send" /\ ret.kind = "Ok" /\ ret.waited
       /\ fchan.cap = 2
       /\ Len(ret.before.queue) = 1
       /\ fchan.queue = ret.after.queue
       /\ fchan.queue[2] = ret.given
       /\ worker.received >= 1
       /\ FastChannel_len(fchan) = worker.sent - worker.received

-----------------------------------------------------------------------------
(* SpecRewrap: a replay of envelopes that were made with other priorities *)

\* The caller hands load_events n envelopes it got from
\* EventEnvelope::new(event, priority) at times ts[k] with priorities pr[k]
\* (the k-th carries price k).
rewrap_load_events(n, ts, pr) ==
    /\ replay.pc = "new"
    /\ LET events == [k \in 1..n |->
                        EnvelopeNew(COUNTER + k - 1, ts[k],
                                    Payload("MarketDataEvent", k), pr[k])]
       IN  replay' = [load_events(replay, events) EXCEPT !.pc = "loaded",
                                                         !.input = events]
    /\ COUNTER' = COUNTER + n
    /\ UNCHANGED <<bus, notReplay>>

NextRewrap ==
    \/ \E n \in 0..MaxLoad : \E ts \in [1..n -> Stamps], pr \in [1..n -> Priorities] :
          rewrap_load_events(n, ts, pr)
    \/ run
    \/ run_advance
    \/ run_publish
    \/ run_entry
    \/ run_send
    \/ run_stat
    \/ run_finish
    \/ subscribe(1, event_type("MarketDataEvent"))
    \/ subscribe_attach(1)
    \/ recv(1)

SpecRewrap == InitReplay /\ [][NextRewrap]_vars

\* The publishes of the replay that carried the payload of envelope e
WrapsOf(e) == {k \in 1..Len(replay.wraps) : replay.wraps[k].loaded.event = e.event}

\* C36: every envelope a subscriber receives for a replayed event was made
\* by the bus at the publish: its id is the fresh one the counter held at
\* that publish, larger than the id of every loaded envelope and of every
\* envelope published before, its timestamp_ns is the time of the publish
\* and its priority is 5, whatever id, timestamp_ns and priority the loaded
\* envelope has.
C36_ReplayRewraps ==
    \A l \in Listeners : \A j \in 1..Len(Delivered(l)) :
       LET e == Delivered(l)[j] IN
       /\ \E k \in WrapsOf(e) :
             LET w == replay.wraps[k] IN
             /\ e.id = w.counter
             /\ e.timestamp_ns = w.now
             /\ e.id # w.loaded.id
             /\ \A m \in 1..(k - 1) : replay.wraps[m].counter < e.id
       /\ e.priority = 5
       /\ e.timestamp_ns \in Times
       /\ \A m \in 1..Len(replay.input) : replay.input[m].id < e.id

\* The subscriber has received the payload of a loaded envelope of priority
\* 9 stamped 3 in an envelope of priority 5 with another timestamp and a
\* larger id.
C36_Witness ==
    \E j \in 1..Len(Delivered(1)) : \E m \in 1..Len(replay.input) :
       LET e == Delivered(1)[j]
           loaded == replay.input[m]
       IN  /\ e.event = loaded.event
           /\ loaded.priority = 9 /\ e.priority = 5
           /\ loaded.timestamp_ns = 3 /\ e.timestamp_ns # 3
           /\ e.id > loaded.id

-----------------------------------------------------------------------------
(* Retention on the typed bus *)

\* The messages of the sends on type E that have completed, in order
SentOn(E) == [k \in 1..Len(tcalls.sentlog[E]) |-> tcalls.sentlog[E][k].event]

\* The thread is inside channel.send of a publish::<E>
InSend(t, E) == tcalls.tasks[t].pc = "send" /\ tcalls.tasks[t].type = E

\* C37: a message published with publish<E> is never dropped, whether or
\* not a handle from subscribe<E>() exists at the time: every send completes
\* with Ok and its message stays queued in the registry's channel until a
\* handle receives it, the oldest first; the sends completed on a type never
\* number more than the capacity plus the messages received, so with no
\* consumer the (capacity + 1)-th publish<E> does not return, and it stays
\* inside send for as long as the queue is full.
C37_TypedRetention ==
    /\ [](\A E \in TypedTypes :
            /\ \A k \in 1..Len(tcalls.sentlog[E]) : tcalls.sentlog[E][k].kind = "Ok"
            /\ SentOn(E) = tcalls.taken[E] \o
                  (IF HasKey(tbus.channels, TypeId_of(E))
                   THEN tbus.channels[TypeId_of(E)].queue ELSE << >>)
            /\ Len(tcalls.sentlog[E]) <= TYPED_CAPACITY + Len(tcalls.taken[E])
            /\ tcalls.taken[E] = << >> =>
                  tcalls.returned[E] + Cardinality(Returning("publish", E))
                     <= TYPED_CAPACITY)
    /\ [][\A t \in Tasks, E \in TypedTypes :
             (InSend(t, E) /\ QueueLen(tbus, E) = TYPED_CAPACITY) => InSend(t, E)']_vars

\* Two messages were published on a type before any handle existed and
\* filled the queue; the third publish returned only after a handle that
\* subscribed later had received the first of them.
C37_Witness ==
    \E E \in TypedTypes :
       /\ Len(tcalls.sentlog[E]) = TYPED_CAPACITY + 1
       /\ tcalls.sentlog[E][1].handles = 0
       /\ tcalls.sentlog[E][TYPED_CAPACITY].handles = 0
       /\ tcalls.sentlog[E][TYPED_CAPACITY + 1].handles > 0
       /\ tcalls.taken[E] = <<tcalls.sentlog[E][1].event>>
       /\ tcalls.returned[E] = TYPED_CAPACITY + 1

\* ---------------------------------------------------------------------
\* Late subscription on the dynamic bus

\* The ids of the envelopes a listener has been handed.
DeliveredIds(l) == {Delivered(l)[k].id : k \in 1..Len(Delivered(l))}

\* C38: a listener receives only envelopes sent after its subscribe call
\* returned: no envelope that was already in the channel of its type name
\* when it subscribed is ever handed to it, whatever the other listeners
\* of that channel received.
C38_OnlyLaterEnvelopes ==
    \A l \in Listeners : Subscribed(l) =>
        DeliveredIds(l) \cap listeners[l].earlier = {}

\* A listener that subscribed to an existing channel after an envelope had
\* reached another listener of it has received a later envelope and not
\* the earlier one.
C38_Witness ==
    \E l1, l2 \in Listeners :
        /\ l1 # l2
        /\ Subscribed(l1) /\ Subscribed(l2)
        /\ listeners[l1].sender = listeners[l2].sender
        /\ DeliveredIds(l2) # {}
        /\ \E id \in listeners[l2].earlier :
              /\ id \in DeliveredIds(l1)
              /\ id \notin DeliveredIds(l2)

\* ---------------------------------------------------------------------
\* Counter conservation on the dynamic bus

\* No publish call is in progress.
Quiescent == \A p \in Tasks : pubs[p].pc \in {"idle", "panicked"}

RECURSIVE CountedOver(_)
\* published + dropped summed over a set of type names
CountedOver(K) ==
    IF K = {} THEN 0
    ELSE LET k == CHOOSE x \in K : TRUE
         IN  get_stats(bus, k).published + get_stats(bus, k).dropped
               + CountedOver(K \ {k})

\* The publish calls that ended by aborting.
Aborted == {p \in Tasks : pubs[p].pc = "panicked"}

\* C39: for every type name, published + dropped equals the number of
\* publish calls completed for it and received stays 0; when no call is in
\* progress the two counters of all type names add up to the calls that
\* were started and did not abort, and each completing call raises exactly
\* one of its type name's two counters by one.
C39_CounterConservation ==
    /\ [](\A k \in BusKeys :
             /\ get_stats(bus, k).published + get_stats(bus, k).dropped
                   = CallsDone(k)
             /\ get_stats(bus, k).received = 0)
    /\ [](Quiescent =>
             CountedOver(BusKeys) = calls.started - Cardinality(Aborted))
    /\ [][\A p \in Tasks : publish_stat(p) =>
             LET key == event_type_name(pubs[p].envelope.event)
                 old == get_stats(bus, key)
                 new == get_stats(bus', key)
             IN  \/ /\ new.published = old.published + 1
                    /\ new.dropped = old.dropped
                 \/ /\ new.published = old.published
                    /\ new.dropped = old.dropped + 1]_vars

\* Both publishers have completed a call for one type name and no call is
\* in progress: one call was counted as published and one as dropped.
C39_Witness ==
    /\ Quiescent
    /\ \E k \in BusKeys :
          /\ CallsDone(k) = 2
          /\ get_stats(bus, k).published = 1
          /\ get_stats(bus, k).dropped = 1
    /\ \A p \in Tasks : pubs[p].ret = "Ok"

\* ---------------------------------------------------------------------
\* A bus created with_recording(0)

\* The bus records into a recorder of capacity 0.
ZeroRecorder == bus.recorder.present /\ bus.recorder.capacity = 0

\* C40: a recorder of capacity 0 cannot record. On a bus created
\* with_recording(0) every record call aborts its publish call: the
\* recorder stays empty, no publish call gets past the recorder, nothing
\* is sent on any channel or handed to any listener, and no counter moves.
C40_ZeroCapacityAborts ==
    /\ [](ZeroRecorder =>
            /\ bus.recorder.events = << >>
            /\ \A p \in Tasks :
                  /\ pubs[p].pc \in {"idle", "record", "panicked"}
                  /\ pubs[p].ret \in {"none", "panic"}
                  /\ pubs[p].recorded = 0
            /\ \A c \in 1..Len(bus.chans) : bus.chans[c].log = << >>
            /\ \A l \in Listeners : listeners[l].got = << >>
            /\ \A k \in BusKeys : get_stats(bus, k) = EventStats_default)
    /\ [][\A p \in Tasks : (ZeroRecorder /\ publish_record(p)) =>
             /\ pubs'[p].pc = "panicked"
             /\ pubs'[p].ret = "panic"
             /\ bus' = bus]_vars

\* The first publish on a bus created with_recording(0) has aborted while
\* a listener of its type name was subscribed; the listener has nothing.
C40_Witness ==
    /\ ZeroRecorder
    /\ calls.started = 1
    /\ \E p \in Tasks :
          /\ pubs[p].pc = "panicked"
          /\ \E l \in Live :
                /\ listeners[l].key = event_type_name(pubs[p].envelope.event)
                /\ listeners[l].got = << >>

=============================================================================
